---- MODULE Spec2Model ----
(***************************************************************************)
(* Model of the concurrency core of src/agent.py: the two tool coroutines  *)
(* query_knowledge_base and schedule_appointment sharing the global        *)
(* consultation_state, the controlled_feedback ticker tasks, the backend   *)
(* tasks perform_query / perform_scheduling, the silence monitor of        *)
(* FixedConversationManager and the shutdown path of entrypoint.           *)
(*                                                                         *)
(* The program runs on one asyncio event loop.  A task runs from one await *)
(* to the next without interruption, so every action below is one such     *)
(* step.  `ready` is the loop's FIFO queue of task wake-ups (call_soon):   *)
(* the step that runs is always the one at the head of the queue.  The     *)
(* environment decides when a tool call arrives, when the HTTP request and *)
(* a session.say call end and how, when the framework cancels a tool call, *)
(* when the user speaks, when the session is shut down and how time        *)
(* passes.                                                                 *)
(***************************************************************************)
EXTENDS Integers, Sequences, FiniteSets, TLC

\* ------------------------------------------------------------------ bounds
\* Each specification below gives the environment a budget (variable lim).
NCallers == 3       \* Spec: tool calls (Submit) issued in one run
MaxCancels == 1     \* Spec: tool calls the framework cancels in one run
MaxTime == 5        \* Spec: horizon of the clock, in seconds
LiveCallers == 2    \* SpecLive: tool calls issued in one run
LiveTime == 5       \* SpecLive: horizon of the clock, in seconds
MonCallers == 1     \* SpecMon: tool calls issued in one run
MonEvents == 1      \* SpecMon: user-activity events in one run
MonTime == 92       \* SpecMon: horizon of the clock, in seconds
OneCallers == 1     \* SpecOne: tool calls issued in one run
OneTime == 14       \* SpecOne: horizon of the clock, in seconds
OneHeard == 4       \* SpecOne: utterances the Speech Sink records
EndCallers == 2     \* SpecEnd: tool calls issued in one run
EndCancels == 1     \* SpecEnd: tool calls the framework cancels in one run
EndTime == 5        \* SpecEnd: horizon of the clock, in seconds
ConfCallers == 2    \* SpecConf: tool calls issued in one run
ConfTime == 5       \* SpecConf: horizon of the clock, in seconds
DateCallers == 1    \* SpecDate: tool calls issued in one run
DateTime == 5       \* SpecDate: horizon of the clock, in seconds
DateDays == 7       \* SpecDate: consecutive days taken for today
AskCallers == 1     \* SpecAsk: operations started in one run
AskCalls == 1       \* SpecAsk: handle_user_impatience calls in one run
AskTime == 13       \* SpecAsk: horizon of the clock, in seconds
LongCallers == 1    \* SpecLong: tool calls in one run
LongTime == 362     \* SpecLong: horizon of the clock, in seconds
LongHeard == 0      \* SpecLong: utterances the Speech Sink's log keeps
LegacyEvents == 1   \* SpecManagers, legacy manager: user-activity events in one run
LegacyTime == 125   \* SpecManagers, legacy manager: horizon of the clock, in seconds
PhoneCallers == 1   \* SpecPhone: tool calls in one run
PhoneTime == 5      \* SpecPhone: horizon of the clock, in seconds
IdleEvents == 1     \* SpecIdle: user-activity events in one run
IdleTime == 125     \* SpecIdle: horizon of the clock, in seconds
IdleHeard == 3      \* SpecIdle: utterances the Speech Sink records

\* ------------------------------------------------------ program constants
StartupDelay == 2       \* entrypoint: asyncio.sleep(2) before the welcome
InitialWait == 3        \* controlled_feedback: asyncio.sleep(3.0)
ProcessingWait == 6     \* controlled_feedback: asyncio.sleep(6.0)
PatienceWait == 8       \* controlled_feedback: asyncio.sleep(8.0)
PollPeriod == 30        \* _fixed_silence_monitor: asyncio.sleep(30)
GraceWindow == 45       \* time_since_completion < 45
CheckInThreshold == 60  \* silence_duration >= 60
LongIdleThreshold == 300 \* silence_duration >= 300
max_silence_warnings == 1 \* FixedConversationManager.__init__
LegacyPollPeriod == 15          \* agent_20250716.py, _monitor_silence: asyncio.sleep(15)
LegacyCheckInThreshold == 15    \* agent_20250716.py: silence_duration >= 15
LegacyClosingThreshold == 60    \* agent_20250716.py: silence_duration >= 60
legacy_max_silence_warnings == 3 \* agent_20250716.py, ConversationManager.__init__
ImpatienceSoon == 5     \* handle_user_impatience: elapsed_time < 5
ImpatienceLate == 10    \* handle_user_impatience: elapsed_time < 10

Max(S) == CHOOSE x \in S : \A y \in S : y <= x
Callers == 1..Max({NCallers, LiveCallers, MonCallers, OneCallers, EndCallers,
                    ConfCallers, DateCallers, AskCallers + AskCalls,
                    LongCallers, PhoneCallers})
None == 0               \* Python's None, for task handles, queries and times

\* ------------------------------------------- validation of an appointment
\* A phone number or a day name is the sequence of its characters; None and
\* "" are both <<>> (the code tests them with "not x").  A calendar day is its day number,
\* whose remainder by 7 is datetime.weekday() (0 = lunes).
Digits == {"0", "1", "2", "3", "4", "5", "6", "7", "8", "9"}
Cleaned == {" ", "-", "(", ")"}        \* the class [\s\-\(\)]
CountryCode == <<"+", "5", "1">>
NationalDigits == 9

\* A pattern that lets one digit more through: \d{9,10}.
IsPeruMobileOrLonger(phone) ==
    /\ Len(phone) \in {Len(CountryCode) + NationalDigits,
                       Len(CountryCode) + NationalDigits + 1}
    /\ SubSeq(phone, 1, Len(CountryCode)) = CountryCode
    /\ \A i \in (Len(CountryCode) + 1)..Len(phone) : phone[i] \in Digits

\* re.match(r'^\+51\d{9}$', phone)
IsPeruMobile(phone) ==
    /\ Len(phone) = Len(CountryCode) + NationalDigits
    /\ SubSeq(phone, 1, Len(CountryCode)) = CountryCode
    /\ \A i \in (Len(CountryCode) + 1)..Len(phone) : phone[i] \in Digits

\* A normalize_phone that accepts whatever is left after the cleaning.
normalize_phoneUnchecked(phone) ==
    IF phone = <<>>
    THEN [phone |-> <<>>, error |-> "phone_missing"]
    ELSE LET cleaned == SelectSeq(phone, LAMBDA ch : ch \notin Cleaned)
         IN  [phone |-> CountryCode \o cleaned, error |-> "none"]

\* The pair (normalized_phone, phone_error) of normalize_phone.
normalize_phone(phone) ==
    IF phone = <<>>
    THEN [phone |-> <<>>, error |-> "phone_missing"]
    ELSE LET cleaned == SelectSeq(phone, LAMBDA ch : ch \notin Cleaned)
             full == IF cleaned # <<>> /\ Head(cleaned) = "+"
                     THEN cleaned ELSE CountryCode \o cleaned
         IN  IF IsPeruMobile(full)
             THEN [phone |-> full, error |-> "none"]
             ELSE [phone |-> <<>>, error |-> "phone_invalid"]

\* str.lower() on the letters that occur, str.strip() on blanks.
UpperCase == <<"A", "B", "C", "D", "E", "F", "G", "H", "I", "J", "K", "L", "M",
               "N", "O", "P", "Q", "R", "S", "T", "U", "V", "W", "X", "Y", "Z",
               "Á", "É", "Í", "Ó", "Ú", "Ñ">>
LowerCase == <<"a", "b", "c", "d", "e", "f", "g", "h", "i", "j", "k", "l", "m",
               "n", "o", "p", "q", "r", "s", "t", "u", "v", "w", "x", "y", "z",
               "á", "é", "í", "ó", "ú", "ñ">>
lower(s) ==
    [i \in DOMAIN s |->
        IF \E k \in DOMAIN UpperCase : UpperCase[k] = s[i]
        THEN LowerCase[CHOOSE k \in DOMAIN UpperCase : UpperCase[k] = s[i]]
        ELSE s[i]]
RECURSIVE lstrip(_)
lstrip(s) == IF s # <<>> /\ Head(s) = " " THEN lstrip(Tail(s)) ELSE s
RECURSIVE rstrip(_)
rstrip(s) ==
    IF s # <<>> /\ s[Len(s)] = " " THEN rstrip(SubSeq(s, 1, Len(s) - 1)) ELSE s
strip(s) == rstrip(lstrip(s))

Lunes == <<"l", "u", "n", "e", "s">>
Martes == <<"m", "a", "r", "t", "e", "s">>
Miercoles == <<"m", "i", "e", "r", "c", "o", "l", "e", "s">>
MiercolesAccent == <<"m", "i", "é", "r", "c", "o", "l", "e", "s">>
Jueves == <<"j", "u", "e", "v", "e", "s">>
Viernes == <<"v", "i", "e", "r", "n", "e", "s">>
Sabado == <<"s", "a", "b", "a", "d", "o">>
SabadoAccent == <<"s", "á", "b", "a", "d", "o">>
Domingo == <<"d", "o", "m", "i", "n", "g", "o">>

\* days_map: the Spanish day names to datetime.weekday() (0 = lunes).
days_map ==
    [d \in {Lunes, Martes, Miercoles, MiercolesAccent, Jueves, Viernes, Sabado,
            SabadoAccent, Domingo} |->
        CASE d = Lunes -> 0
          [] d = Martes -> 1
          [] d \in {Miercoles, MiercolesAccent} -> 2
          [] d = Jueves -> 3
          [] d = Viernes -> 4
          [] d \in {Sabado, SabadoAccent} -> 5
          [] OTHER -> 6]

NoDate == [form |-> "none", day |-> 0]
Manana == [form |-> "manana", day |-> 0]
DayMonthYear(d) == [form |-> "dmy", day |-> d]
Unparsed == [form |-> "other", day |-> 0]

\* A comparison of day_reference as it was given.
WrongDayAsGiven(day_reference, d) ==
    /\ day_reference # <<>>
    /\ day_reference \in DOMAIN days_map
    /\ days_map[day_reference] # d % 7

\* `if day_reference:` ... lower().strip() ... `in days_map` ... `!=`:
\* day_reference names a weekday of days_map other than that of day d.
WrongDay(day_reference, d) ==
    /\ day_reference # <<>>
    /\ strip(lower(day_reference)) \in DOMAIN days_map
    /\ days_map[strip(lower(day_reference))] # d % 7

\* The pair (formatted_date, error) of parse_relative_date, today being the
\* day number datetime.now(lima_tz) falls on.  date_input is "mañana" (any
\* text holding it), a text strptime reads as DD/MM/YYYY, any other text,
\* or nothing.
parse_relative_date(date_input, day_reference, today) ==
    CASE date_input.form = "none" -> [date |-> NoDate, error |-> "date_missing"]
      [] date_input.form = "manana" ->
            IF WrongDay(day_reference, today + 1)
            THEN [date |-> NoDate, error |-> "manana_mismatch"]
            ELSE [date |-> DayMonthYear(today + 1), error |-> "none"]
      [] date_input.form = "dmy" ->
            IF date_input.day < today
            THEN [date |-> NoDate, error |-> "date_past"]
            ELSE IF WrongDay(day_reference, date_input.day)
            THEN [date |-> NoDate, error |-> "date_mismatch"]
            ELSE [date |-> DayMonthYear(date_input.day), error |-> "none"]
      [] OTHER -> [date |-> NoDate, error |-> "date_format"]

\* What schedule_appointment returns before it speaks or touches the
\* coordinator's state, "none" if the arguments pass.
ValidationError(a) ==
    LET p == normalize_phone(a.phone)
        d == parse_relative_date(a.date, a.day_reference, a.today)
    IN  IF p.error # "none" THEN p.error
        ELSE IF d.error # "none" THEN d.error
        ELSE IF a.name = "" \/ p.phone = <<>> \/ d.date = NoDate \/ a.time = ""
        THEN "missing_data"
        ELSE "none"

\* The arguments the specifications of the coordinator call
\* schedule_appointment with; those that pass give the same date.
Today == 100                \* a day number; 100 % 7 = 2, a miércoles
GoodPhone == <<"9", "8", "7", "6", "5", "4", "3", "2", "1">>
DressedPhone == <<"+", "5", "1", " ", "9", "8", "7", "-", "6", "5", "4", "-",
                  "3", "2", "1">>
ShortPhone == <<"1", "2", "3", "4", "5">>
ForeignPhone == <<"+", "1">> \o GoodPhone
GoodArgs ==
    [name |-> "Ana", phone |-> GoodPhone, date |-> Manana,
     day_reference |-> <<>>, time |-> "10:00", today |-> Today]
ScheduleInputs ==
    { GoodArgs,
      [GoodArgs EXCEPT !.phone = DressedPhone],
      [GoodArgs EXCEPT !.day_reference = Jueves],
      [GoodArgs EXCEPT !.date = DayMonthYear(Today + 1),
                       !.day_reference = Jueves],
      [GoodArgs EXCEPT !.phone = ShortPhone],
      [GoodArgs EXCEPT !.phone = ForeignPhone],
      [GoodArgs EXCEPT !.phone = <<>>],
      [GoodArgs EXCEPT !.date = NoDate],
      [GoodArgs EXCEPT !.date = Unparsed],
      [GoodArgs EXCEPT !.date = DayMonthYear(Today - 1)],
      [GoodArgs EXCEPT !.date = DayMonthYear(Today + 5),
                       !.day_reference = Martes],
      [GoodArgs EXCEPT !.day_reference = Lunes],
      [GoodArgs EXCEPT !.name = ""],
      [GoodArgs EXCEPT !.time = ""] }

\* The ways the dialogue layer may write a day name.
Capitalised(s) ==
    [i \in DOMAIN s |->
        IF i = 1 /\ \E k \in DOMAIN LowerCase : LowerCase[k] = s[i]
        THEN UpperCase[CHOOSE k \in DOMAIN LowerCase : LowerCase[k] = s[i]]
        ELSE s[i]]
Shouted(s) ==
    [i \in DOMAIN s |->
        IF \E k \in DOMAIN LowerCase : LowerCase[k] = s[i]
        THEN UpperCase[CHOOSE k \in DOMAIN LowerCase : LowerCase[k] = s[i]]
        ELSE s[i]]
Padded(s) == <<" ">> \o s \o <<" ">>
Written(s) == {s, Capitalised(s), Shouted(s), Padded(s)}

\* The spellings of the day whose datetime.weekday() is w.
DayNames(w) ==
    CASE w = 0 -> {Lunes} [] w = 1 -> {Martes}
      [] w = 2 -> {Miercoles, MiercolesAccent}
      [] w = 3 -> {Jueves} [] w = 4 -> {Viernes}
      [] w = 5 -> {Sabado, SabadoAccent}
      [] OTHER -> {Domingo}
Spellings(w) == UNION {Written(n) : n \in DayNames(w)}

\* SpecDate: schedule_appointment asked for "mañana" with a day name, no day
\* name or a word that is no Spanish day name, on each day of a week.
DateInputs ==
    LET Feriado == <<"f", "e", "r", "i", "a", "d", "o">>
        Monday == <<"m", "o", "n", "d", "a", "y">>
    IN  {[GoodArgs EXCEPT !.day_reference = r, !.today = t] :
            r \in {<<>>, Feriado, Monday} \cup UNION {Spellings(w) : w \in 0..6},
            t \in Today..(Today + DateDays - 1)}

\* A 9-digit number written in groups of three with dashes.
Dashed(b) == SubSeq(b, 1, 3) \o <<"-">> \o SubSeq(b, 4, 6) \o <<"-">> \o SubSeq(b, 7, Len(b))

\* The phone numbers the specification of normalize_phone calls
\* schedule_appointment with: bodies of 8, 9 and 10 digits and one with a
\* letter, written plain, with dashes, with parentheses or between blanks,
\* after each of a set of prefixes; and the empty, blank and bare-prefix ones.
PhoneInputs ==
    LET NationalBodies ==
            { SubSeq(GoodPhone, 1, 8), GoodPhone, GoodPhone \o <<"0">>,
              SubSeq(GoodPhone, 1, 8) \o <<"a">> }
        Bracketed(b) == <<"(">> \o SubSeq(b, 1, 3) \o <<")", " ">> \o SubSeq(b, 4, Len(b))
        Dressed(b) == {b, Dashed(b), Bracketed(b), Padded(b)}
        Prefixes ==
            { <<>>, CountryCode, CountryCode \o <<" ">>, <<"+", " ", "5", "1">>,
              <<"5", "1">>, <<"+", "1">>, <<"+">>, <<"+", "5", "2">>, <<"0">> }
        PhoneStrings ==
            {p \o d : p \in Prefixes, d \in UNION {Dressed(b) : b \in NationalBodies}}
            \cup {<<>>, <<" ">>, <<"+">>, CountryCode, <<"-", "-">>}
    IN  {[GoodArgs EXCEPT !.phone = p] : p \in PhoneStrings}

Text(msg, op, arg) == [msg |-> msg, op |-> op, arg |-> arg]
NoText == Text("none", "none", 0)

\* The fixed strings the tools return from their except clauses and for a
\* missing webhook URL.
Utterance(op, msg) ==
    IF op = "rag"
    THEN CASE msg = "superseded" -> "He recibido tu nueva pregunta, déjame procesarla."
           [] msg = "timeout" -> "La consulta está tardando más de lo esperado. ¿Podrías repetir tu pregunta o ser más específico?"
           [] msg = "http" -> "No pude conectarme con el sistema de información en este momento. ¿Puedo ayudarte con algo más?"
           [] msg = "unexpected" -> "Ocurrió un error al procesar tu solicitud. ¿Podrías intentar reformular tu pregunta?"
           [] msg = "config" -> "Lo siento, hay un problema de configuración que me impide buscar la información."
           [] msg = "wait_short" -> "Disculpa, estoy procesando tu consulta. Te respondo en unos segundos más."
           [] msg = "wait_medium" -> "Te pido paciencia, estoy buscando la información más precisa para ti."
           [] msg = "wait_long" -> "Entiendo tu impaciencia, la consulta está tomando más tiempo del esperado. Te aseguro que tendrás la respuesta muy pronto."
           [] msg = "help" -> "¿En qué puedo ayudarte? Estoy aquí para resolver tus dudas sobre Multiservicioscall."
           [] OTHER -> msg
    ELSE CASE msg = "superseded" -> "He recibido una nueva solicitud, déjame procesarla."
           [] msg = "timeout" -> "El proceso de agendamiento está tomando más tiempo del esperado. ¿Podrías intentar de nuevo?"
           [] msg = "http" -> "No pude conectar con el sistema de agendamiento. ¿Puedo ayudarte con algo más?"
           [] msg = "unexpected" -> "Ocurrió un error al agendar tu cita. ¿Podrías intentar de nuevo o especificar otra fecha?"
           [] msg = "config" -> "Lo siento, hay un problema de configuración que me impide agendar la cita."
           [] msg = "wait_short" -> "Disculpa, estoy procesando tu cita. Te respondo en unos segundos."
           [] msg = "wait_medium" -> "Te pido paciencia, estoy confirmando la disponibilidad del gerente."
           [] msg = "wait_long" -> "Entiendo tu impaciencia, la cita está casi lista. Te confirmo en breve."
           [] msg = "help" -> "¿En qué puedo ayudarte? Estoy aquí para resolver tus dudas sobre Multiservicioscall."
           [] OTHER -> msg

\* The string a returned text stands for.
Spoken(t) == Utterance(t.op, t.msg)

VARIABLES
    consultation_state, \* the global dict of src/agent.py:44
    active_session,     \* TRUE while the global active_session is set
    urls,               \* which webhook URLs os.getenv finds
    now,                \* loop.time(), in seconds
    ready,              \* the event loop's FIFO of scheduled task steps
    callers,            \* the tool-call coroutines, by call number
    backend,            \* the perform_query / perform_scheduling tasks
    ticker,             \* the controlled_feedback tasks
    mon,                \* the _fixed_silence_monitor task
    mgr,                \* the FixedConversationManager's fields
    epc,                \* where entrypoint stands
    used,               \* what the environment has spent of its budget
    lim,                \* the environment's budget, fixed in a run
    heard               \* what the Speech Sink was asked to say, and when

vars == <<consultation_state, active_session, urls, now, ready, callers,
          backend, ticker, mon, mgr, epc, used, lim, heard>>

\* Every end of an HTTP exchange the backend tasks tell apart.
Exchanges == {"ok", "nok", "timeout", "http", "unexpected"}

IdleState == [is_active |-> FALSE, current_query |-> None,
              operation_type |-> "none", start_time |-> None,
              task |-> None, feedback_task |-> None,
              feedback_sent |-> <<>>, last_completed |-> None]

\* A tool call: where it stands, what it awaits, what it returns, and the
\* formatted_date of schedule_appointment.
NoCaller == [pc |-> "idle", kind |-> "none", wait |-> None, fin |-> None,
             ret |-> NoText, exit |-> "none", must |-> FALSE, date |-> NoDate,
             phone |-> <<>>]
NoBackend == [pc |-> "none", kind |-> "none", out |-> "none", payload |-> None,
              cancel |-> FALSE, waiters |-> <<>>]
NoTicker == [pc |-> "none", stage |-> 0, wake |-> None, start |-> None,
             cancel |-> FALSE, waiters |-> <<>>]

\* The state when entrypoint awaits asyncio.Future(): the manager was built
\* at time 0, the welcome was said after asyncio.sleep(2) and the monitor
\* has begun its first asyncio.sleep(30).
\* The session two seconds after entrypoint began, before the first tool call.
Booted ==
    /\ consultation_state = IdleState
    /\ active_session = TRUE
    /\ now = StartupDelay
    /\ ready = <<>>
    /\ callers = [c \in Callers |-> NoCaller]
    /\ backend = [c \in Callers |-> NoBackend]
    /\ ticker = [c \in Callers |-> NoTicker]
    /\ mon = [pc |-> "sleep", wake |-> StartupDelay + PollPeriod,
              cur |-> None, cancel |-> FALSE]
    /\ mgr = [last_user_activity |-> 0, last_agent_response |-> StartupDelay,
              silence_warnings |-> 0, is_active |-> TRUE,
              class |-> "FixedConversationManager"]
    /\ epc = "running"
    /\ used = [submits |-> 0, cancels |-> 0, events |-> 0, asks |-> 0]
    /\ heard = <<>>

\* Both webhook URLs are in the environment, as the __main__ guard demands.
Started ==
    /\ Booted
    /\ urls = [rag |-> TRUE, appointment |-> TRUE]

Init ==
    /\ Started
    /\ lim = [submits |-> NCallers, cancels |-> MaxCancels, events |-> 0,
              fine |-> FALSE, time |-> MaxTime, log |-> 0,
              inputs |-> ScheduleInputs, asks |-> 0, brief |-> FALSE,
              outcomes |-> {"ok", "timeout"}]

MonInit ==
    /\ Started
    /\ lim = [submits |-> MonCallers, cancels |-> 0, events |-> MonEvents,
              fine |-> FALSE, time |-> MonTime, log |-> 0,
              inputs |-> ScheduleInputs, asks |-> 0, brief |-> FALSE,
              outcomes |-> {"ok", "timeout"}]

LiveInit ==
    /\ Started
    /\ lim = [submits |-> LiveCallers, cancels |-> 0, events |-> 0,
              fine |-> FALSE, time |-> LiveTime, log |-> 0,
              inputs |-> ScheduleInputs, asks |-> 0, brief |-> FALSE,
              outcomes |-> Exchanges]

OneInit ==
    /\ Started
    /\ lim = [submits |-> OneCallers, cancels |-> 0, events |-> 0,
              fine |-> TRUE, time |-> OneTime, log |-> OneHeard,
              inputs |-> ScheduleInputs, asks |-> 0, brief |-> FALSE,
              outcomes |-> Exchanges]

EndInit ==
    /\ Started
    /\ lim = [submits |-> EndCallers, cancels |-> EndCancels, events |-> 0,
              fine |-> FALSE, time |-> EndTime, log |-> 0,
              inputs |-> ScheduleInputs, asks |-> 0, brief |-> FALSE,
              outcomes |-> {"ok", "timeout"}]

\* entrypoint run by a worker that does not pass through the __main__ guard
\* (the module imported, or the environment changed since): either URL may be
\* missing when perform_query / perform_scheduling calls os.getenv.
ConfInit ==
    /\ Booted
    /\ urls \in [rag : BOOLEAN, appointment : BOOLEAN]
    /\ lim = [submits |-> ConfCallers, cancels |-> 0, events |-> 0,
              fine |-> FALSE, time |-> ConfTime, log |-> 0,
              inputs |-> ScheduleInputs, asks |-> 0, brief |-> FALSE,
              outcomes |-> Exchanges]

DateInit ==
    /\ Started
    /\ \E a \in DateInputs :
          lim = [submits |-> DateCallers, cancels |-> 0, events |-> 0,
                 fine |-> TRUE, time |-> DateTime, log |-> 0,
                 inputs |-> {a}, asks |-> 0,
                 brief |-> FALSE, outcomes |-> Exchanges]

PhoneInit ==
    /\ Started
    /\ \E a \in PhoneInputs :
          lim = [submits |-> PhoneCallers, cancels |-> 0, events |-> 0,
                 fine |-> TRUE, time |-> PhoneTime, log |-> 0,
                 inputs |-> {a}, asks |-> 0,
                 brief |-> FALSE, outcomes |-> Exchanges]

AskInit ==
    /\ Started
    /\ lim = [submits |-> AskCallers, cancels |-> 0, events |-> 0,
              fine |-> TRUE, time |-> AskTime, log |-> 0,
              inputs |-> ScheduleInputs, asks |-> AskCalls, brief |-> FALSE,
              outcomes |-> Exchanges]

LongInit ==
    /\ Started
    /\ lim = [submits |-> LongCallers, cancels |-> 0, events |-> 0,
              fine |-> FALSE, time |-> LongTime, log |-> LongHeard,
              inputs |-> {GoodArgs}, asks |-> 0, brief |-> TRUE,
              outcomes |-> {"ok"}]

IdleInit ==
    /\ Started
    /\ lim = [submits |-> 0, cancels |-> 0, events |-> IdleEvents,
              fine |-> TRUE, time |-> IdleTime, log |-> IdleHeard,
              inputs |-> ScheduleInputs, asks |-> 0, brief |-> FALSE,
              outcomes |-> Exchanges]

\* The legacy program (agent_20250716.py) when its entrypoint awaits
\* asyncio.Future(): ConversationManager was built at time 0, the welcome was
\* said after asyncio.sleep(2) and _monitor_silence has begun its first
\* asyncio.sleep(15).  It has no tool-call coordinator state.
LegacyInit ==
    /\ consultation_state = IdleState
    /\ active_session = TRUE
    /\ urls = [rag |-> TRUE, appointment |-> TRUE]
    /\ now = StartupDelay
    /\ ready = <<>>
    /\ callers = [c \in Callers |-> NoCaller]
    /\ backend = [c \in Callers |-> NoBackend]
    /\ ticker = [c \in Callers |-> NoTicker]
    /\ mon = [pc |-> "sleep", wake |-> StartupDelay + LegacyPollPeriod,
              cur |-> None, cancel |-> FALSE]
    /\ mgr = [last_user_activity |-> 0, last_agent_response |-> None,
              silence_warnings |-> 0, is_active |-> TRUE,
              class |-> "ConversationManager"]
    /\ epc = "running"
    /\ used = [submits |-> 0, cancels |-> 0, events |-> 0, asks |-> 0]
    /\ heard = <<>>
    /\ lim = [submits |-> 0, cancels |-> 0, events |-> LegacyEvents,
              fine |-> TRUE, time |-> LegacyTime, log |-> 0,
              inputs |-> ScheduleInputs, asks |-> 0, brief |-> FALSE,
              outcomes |-> Exchanges]

\* session.say(...) is called: the Speech Sink's record of the utterances it
\* was given, kept up to the length a specification asks for.
Hear(what) ==
    IF Len(heard) < lim.log
    THEN Append(heard, [what |-> what, at |-> now])
    ELSE heard

\* ------------------------------------------------------- the event loop
InQueue(rq, x) == \E i \in DOMAIN rq : rq[i] = x
\* call_soon of a task's wake-up; a task has at most one wake-up pending
Enq(rq, x) == IF InQueue(rq, x) THEN rq ELSE Append(rq, x)
RECURSIVE EnqAll(_, _, _)
EnqAll(rq, tag, ws) ==
    IF ws = <<>> THEN rq ELSE EnqAll(Enq(rq, <<tag, Head(ws)>>), tag, Tail(ws))
Runs(tag, id) == ready # <<>> /\ Head(ready) = <<tag, id>>

\* The part of the state the tool coroutines work on, passed through the
\* pieces of one step.
World == [cs |-> consultation_state, tk |-> ticker, bk |-> backend,
          rq |-> Tail(ready), cl |-> callers]
\* A finished backend task that consultation_state no longer holds and no
\* tool call awaits is garbage: nothing can read its result any more.
Collect(bk, cs, cl) ==
    [t \in Callers |->
        IF /\ bk[t].pc = "done"
           /\ cs.task # t
           /\ \A c \in Callers : cl[c].wait # t
        THEN [NoBackend EXCEPT !.pc = "done"]
        ELSE bk[t]]

Commit(w) ==
    /\ consultation_state' = w.cs
    /\ ticker' = w.tk
    /\ backend' = Collect(w.bk, w.cs, w.cl)
    /\ ready' = w.rq
    /\ callers' = w.cl

\* ------------------------------------------------- the Operation Coordinator
\* if feedback_task and not feedback_task.done(): feedback_task.cancel()
\* Task.cancel() makes the task's next step raise CancelledError and schedules
\* that step unless it is scheduled already.
CancelFeedback(w) ==
    LET f == w.cs.feedback_task IN
    IF f # None /\ w.tk[f].pc # "done"
    THEN [w EXCEPT !.tk[f].cancel = TRUE, !.rq = Enq(@, <<"F", f>>)]
    ELSE w

\* What `await task` gives a caller: "pending" (the caller suspends), the
\* task's result, CancelledError, or the exception the task raised.
AwaitOutcome(b, must) ==
    IF must THEN "cancelled"
    ELSE IF b.pc # "done" THEN "pending"
    ELSE IF b.out \in {"ok", "nok", "config"} THEN "result"
    ELSE IF b.out = "cancelled" THEN "cancelled"
    ELSE "error"

\* The string perform_query / perform_scheduling returns.
ResultText(b) ==
    CASE b.out = "config" -> Text("config", b.kind, 0)
      [] b.out = "nok" -> Text("not_scheduled", b.kind, b.payload)
      [] b.out = "ok" /\ b.kind = "appointment" -> Text("scheduled", b.kind, b.payload)
      [] OTHER -> Text("answer", b.kind, b.payload)

\* consultation_state.update({...}) at the start of an operation, then
\* create_task(controlled_feedback()), create_task(perform_...()) and the
\* await of the new task.
StartOperation(w, c, kind) ==
    [w EXCEPT
        !.cs = [@ EXCEPT !.is_active = TRUE, !.current_query = c,
                         !.operation_type = kind, !.start_time = now,
                         !.task = c, !.feedback_task = c,
                         !.feedback_sent = <<>>],
        !.tk[c] = [NoTicker EXCEPT !.pc = "created"],
        !.bk[c] = [NoBackend EXCEPT !.pc = "created", !.kind = kind,
                                    !.waiters = <<c>>],
        !.rq = Enq(Enq(@, <<"F", c>>), <<"B", c>>),
        !.cl[c] = [@ EXCEPT !.pc = "own", !.wait = c, !.must = FALSE]]

\* return result, from the join of an operation in flight
ReturnJoined(w, c, t) ==
    [w EXCEPT !.cl[c] = [@ EXCEPT !.pc = "returned", !.exit = "join",
                                  !.ret = ResultText(w.bk[t]), !.must = FALSE]]

\* The branch `if consultation_state["is_active"]:` of both tools.
Supersede(w, c, kind) ==
    LET w1 == CancelFeedback(w)
        w2 == [w1 EXCEPT !.cs.current_query = c, !.cs.operation_type = kind]
        t == w.cs.task
        o == IF t = None THEN "none" ELSE AwaitOutcome(w.bk[t], FALSE)
    IN  CASE o = "pending" ->
                [w2 EXCEPT !.cl[c] = [@ EXCEPT !.pc = "join", !.wait = t],
                           !.bk[t].waiters = Append(@, c)]
          [] o = "result" -> ReturnJoined([w2 EXCEPT !.cl[c].wait = t], c, t)
          [] o = "error" ->
                [w2 EXCEPT !.cl[c] = [@ EXCEPT !.pc = "raised", !.wait = t,
                                               !.exit = w.bk[t].out]]
          [] OTHER -> StartOperation(w2, c, kind)

EnterOperation(w, c, kind) ==
    IF w.cs.is_active THEN Supersede(w, c, kind) ELSE StartOperation(w, c, kind)

\* The caller resumes from `result = await consultation_state["task"]` in the
\* is_active branch.
ResumeJoined(w, c) ==
    LET t == w.cl[c].wait
        o == AwaitOutcome(w.bk[t], w.cl[c].must)
    IN  CASE o = "result" -> ReturnJoined(w, c, t)
          [] o = "error" ->
                [w EXCEPT !.cl[c] = [@ EXCEPT !.pc = "raised",
                                              !.exit = w.bk[t].out]]
          [] OTHER -> StartOperation(w, c, w.cl[c].kind)

\* consultation_state.update({... "last_completed": now ...}) of the finally
\* block, after which the tool returns the value its try block chose.
Reset(w, c) ==
    [w EXCEPT !.cs = [IdleState EXCEPT !.last_completed = now],
              !.cl[c] = [@ EXCEPT !.pc = "returned", !.must = FALSE]]

\* A finally block that resets the state and leaves the ticker alone.
TeardownNoCancel(w, c) == Reset(w, c)

\* The finally block up to its await.
Teardown(w, c) ==
    LET f == w.cs.feedback_task IN
    IF f # None /\ w.tk[f].pc # "done"
    THEN LET w1 == CancelFeedback(w) IN
         [w1 EXCEPT !.cl[c] = [@ EXCEPT !.pc = "fin", !.fin = f, !.must = FALSE],
                    !.tk[f].waiters = Append(@, c)]
    ELSE Reset(w, c)

\* A try block with a single except clause for every failure of the task.
OwnExitOneClause(w, c) ==
    LET o == AwaitOutcome(w.bk[c], w.cl[c].must) IN
    CASE o = "result" -> IF w.cs.start_time = None THEN "unexpected" ELSE "result"
      [] o = "cancelled" -> "superseded"
      [] OTHER -> "unexpected"

\* The value the try block of the originating tool returns: the task's
\* result, or the utterance of the except clause that catches its failure.
\* The line after the await subtracts consultation_state["start_time"] from
\* the loop time; with start_time None that raises TypeError, which the
\* `except Exception` clause turns into the unexpected-error utterance.
OwnExit(w, c) ==
    LET o == AwaitOutcome(w.bk[c], w.cl[c].must) IN
    CASE o = "result" -> IF w.cs.start_time = None THEN "unexpected" ELSE "result"
      [] o = "cancelled" -> "superseded"
      [] OTHER -> w.bk[c].out

OwnText(w, c) ==
    LET e == OwnExit(w, c) IN
    IF e = "result" THEN ResultText(w.bk[c]) ELSE Text(e, w.cl[c].kind, 0)

\* The caller resumes from `result = await consultation_state["task"]` in its
\* own try block and runs into the finally block.
ResumeOwn(w, c) ==
    Teardown([w EXCEPT !.cl[c].ret = OwnText(w, c), !.cl[c].exit = OwnExit(w, c)], c)

\* ------------------------------------------------------- tool-call steps
\* A tool call that has returned, raised or been cancelled.
Finished(c) == callers[c].pc \in {"returned", "raised", "cancelled"}

\* The framework takes a finished tool call's outcome before anything else
\* runs (Deliver).
Settled == \A c \in Callers : ~Finished(c)

\* The dialogue layer produces a tool call: the framework creates its task.
\* Tool calls arrive while the session runs; calls in flight when the
\* session shuts down run on.
Submit(c, kind) ==
    /\ Settled
    /\ UNCHANGED <<lim, heard>>
    /\ epc = "running"
    /\ used.submits < lim.submits
    /\ c = used.submits + used.asks + 1
    /\ callers' = [callers EXCEPT ![c] = [NoCaller EXCEPT !.pc = "new", !.kind = kind]]
    /\ ready' = Append(ready, <<"C", c>>)
    /\ used' = [used EXCEPT !.submits = @ + 1]
    /\ UNCHANGED <<consultation_state, active_session, urls, now, backend,
                   ticker, mon, mgr, epc>>

\* A tool call cancelled before its first step never runs its body.
\* The dialogue layer calls handle_user_impatience.
SubmitImpatience(c) ==
    /\ Settled
    /\ UNCHANGED <<lim, heard>>
    /\ epc = "running"
    /\ used.asks < lim.asks
    /\ c = used.submits + used.asks + 1
    /\ callers' = [callers EXCEPT ![c] = [NoCaller EXCEPT !.pc = "new",
                                                          !.kind = "impatience"]]
    /\ ready' = Append(ready, <<"C", c>>)
    /\ used' = [used EXCEPT !.asks = @ + 1]
    /\ UNCHANGED <<consultation_state, active_session, urls, now, backend,
                   ticker, mon, mgr, epc>>

\* The elapsed-time buckets with their bounds on the other side.
BucketInclusive(elapsed_time) ==
    IF elapsed_time <= ImpatienceSoon THEN "wait_short"
    ELSE IF elapsed_time <= ImpatienceLate THEN "wait_medium"
    ELSE "wait_long"

\* if elapsed_time < 5 ... elif elapsed_time < 10 ... else
Bucket(elapsed_time) ==
    IF elapsed_time < ImpatienceSoon THEN "wait_short"
    ELSE IF elapsed_time < ImpatienceLate THEN "wait_medium"
    ELSE "wait_long"

\* What handle_user_impatience returns at time t.
ImpatienceText(cs, t) ==
    IF cs.is_active
    THEN Text(Bucket(t - cs.start_time),
              IF cs.operation_type = "appointment" THEN "appointment" ELSE "rag",
              0)
    ELSE Text("help", "none", 0)

\* handle_user_impatience, which has no await: with is_active true and
\* start_time None the subtraction raises TypeError.
ImpatienceEnter(c) ==
    /\ Settled
    /\ UNCHANGED <<lim, heard>>
    /\ Runs("C", c)
    /\ callers[c].pc = "new" /\ callers[c].kind = "impatience" /\ ~callers[c].must
    /\ callers' = [callers EXCEPT ![c] =
          IF consultation_state.is_active /\ consultation_state.start_time = None
          THEN [@ EXCEPT !.pc = "raised", !.exit = "unexpected"]
          ELSE [@ EXCEPT !.pc = "returned", !.exit = "impatience",
                         !.ret = ImpatienceText(consultation_state, now)]]
    /\ ready' = Tail(ready)
    /\ UNCHANGED <<consultation_state, active_session, urls, now, backend,
                   ticker, mon, mgr, epc, used>>

CallerCancelledEarly(c) ==
    /\ Settled
    /\ UNCHANGED <<lim, heard>>
    /\ Runs("C", c)
    /\ callers[c].pc \in {"new", "confirm", "confirmed"}
    /\ callers[c].must
    /\ callers' = [callers EXCEPT ![c] = [@ EXCEPT !.pc = "cancelled", !.must = FALSE]]
    /\ ready' = Tail(ready)
    /\ UNCHANGED <<consultation_state, active_session, urls, now, backend,
                   ticker, mon, mgr, epc, used>>

\* query_knowledge_base from its first line to its first await or return.
QueryEnter(c) ==
    /\ Settled
    /\ UNCHANGED <<lim, heard>>
    /\ Runs("C", c)
    /\ callers[c].pc = "new" /\ callers[c].kind = "rag" /\ ~callers[c].must
    /\ Commit(EnterOperation(World, c, "rag"))
    /\ UNCHANGED <<active_session, urls, now, mon, mgr, epc, used>>

\* schedule_appointment from its first line to the await of the confirmation
\* utterance: a validation message is returned before anything else happens;
\* active_session.say on a None session raises AttributeError.
ScheduleEnter(c) ==
    /\ Settled
    /\ UNCHANGED lim
    /\ Runs("C", c)
    /\ callers[c].pc = "new" /\ callers[c].kind = "appointment" /\ ~callers[c].must
    /\ \E a \in lim.inputs :
         LET error == ValidationError(a)
             normalized_phone == normalize_phone(a.phone).phone
             formatted_date ==
                 IF normalize_phone(a.phone).error # "none" THEN NoDate
                 ELSE parse_relative_date(a.date, a.day_reference, a.today).date
         IN  callers' = [callers EXCEPT ![c] =
                IF error # "none"
                THEN [@ EXCEPT !.pc = "returned", !.exit = "validation",
                               !.ret = Text(error, "appointment", 0),
                               !.date = formatted_date,
                               !.phone = normalized_phone]
                ELSE IF ~active_session
                THEN [@ EXCEPT !.pc = "raised", !.exit = "no_session",
                               !.date = formatted_date,
                               !.phone = normalized_phone]
                ELSE [@ EXCEPT !.pc = "confirm", !.date = formatted_date,
                               !.phone = normalized_phone]]
    /\ heard' = IF callers'[c].pc = "confirm" THEN Hear("confirmation") ELSE heard
    /\ ready' = Tail(ready)
    /\ UNCHANGED <<consultation_state, active_session, urls, now, backend,
                   ticker, mon, mgr, epc, used>>

\* The confirmation utterance ends (environment) and the call is scheduled.
ConfirmSayEnds(c) ==
    /\ Settled
    /\ UNCHANGED <<lim, heard>>
    /\ callers[c].pc = "confirm" /\ ~callers[c].must
    /\ callers' = [callers EXCEPT ![c].pc = "confirmed"]
    /\ ready' = Enq(ready, <<"C", c>>)
    /\ UNCHANGED <<consultation_state, active_session, urls, now, backend,
                   ticker, mon, mgr, epc, used>>

\* schedule_appointment after the confirmation utterance: an exception of say
\* leaves the tool; otherwise it goes on as query_knowledge_base does.
ScheduleConfirmed(c) ==
    /\ Settled
    /\ UNCHANGED <<lim, heard>>
    /\ Runs("C", c)
    /\ callers[c].pc = "confirmed" /\ ~callers[c].must
    /\ \E ok \in BOOLEAN :
       IF ~ok
       THEN /\ callers' = [callers EXCEPT ![c] = [@ EXCEPT !.pc = "raised", !.exit = "say"]]
            /\ ready' = Tail(ready)
            /\ UNCHANGED <<consultation_state, backend, ticker>>
       ELSE Commit(EnterOperation(World, c, "appointment"))
    /\ UNCHANGED <<active_session, urls, now, mon, mgr, epc, used>>

CallerJoinResume(c) ==
    /\ Settled
    /\ UNCHANGED <<lim, heard>>
    /\ Runs("C", c)
    /\ callers[c].pc = "join"
    /\ Commit(ResumeJoined(World, c))
    /\ UNCHANGED <<active_session, urls, now, mon, mgr, epc, used>>

CallerOwnResume(c) ==
    /\ Settled
    /\ UNCHANGED <<lim, heard>>
    /\ Runs("C", c)
    /\ callers[c].pc = "own"
    /\ Commit(ResumeOwn(World, c))
    /\ UNCHANGED <<active_session, urls, now, mon, mgr, epc, used>>

\* The caller resumes from `await consultation_state["feedback_task"]`.
CallerFinResume(c) ==
    /\ Settled
    /\ UNCHANGED <<lim, heard>>
    /\ Runs("C", c)
    /\ callers[c].pc = "fin"
    /\ Commit(Reset(World, c))
    /\ UNCHANGED <<active_session, urls, now, mon, mgr, epc, used>>

\* The framework cancels a running tool call (Task.cancel()): the
\* cancellation goes to what the call awaits; if that is done already, or
\* the call has not started, the call's next step raises CancelledError.
\* A call awaiting the ticker in its finally block is left out: the ticker
\* is cancelled already and the CancelledError is swallowed there.
CancelCaller(c) ==
    /\ Settled
    /\ UNCHANGED <<lim, heard>>
    /\ used.cancels < lim.cancels
    /\ callers[c].pc \in {"new", "confirm", "confirmed", "join", "own"}
    /\ ~callers[c].must
    /\ used' = [used EXCEPT !.cancels = @ + 1]
    /\ LET t == callers[c].wait IN
       IF callers[c].pc \in {"join", "own"} /\ backend[t].pc # "done"
       THEN /\ backend' = [backend EXCEPT ![t].cancel = TRUE]
            /\ ready' = Enq(ready, <<"B", t>>)
            /\ UNCHANGED callers
       ELSE /\ callers' = [callers EXCEPT ![c].must = TRUE]
            /\ ready' = Enq(ready, <<"C", c>>)
            /\ UNCHANGED backend
    /\ UNCHANGED <<consultation_state, active_session, urls, now, ticker,
                   mon, mgr, epc>>

\* The framework takes the finished tool call's outcome (its return value or
\* its exception); the coroutine object is gone.
Deliver(c) ==
    /\ UNCHANGED <<lim, heard>>
    /\ Finished(c)
    /\ callers' = [callers EXCEPT ![c] = [NoCaller EXCEPT !.pc = "done"]]
    /\ backend' = Collect(backend, consultation_state, callers')
    /\ UNCHANGED <<consultation_state, active_session, urls, now, ready,
                   ticker, mon, mgr, epc, used>>

\* ---------------------------------------------------------- backend task
FinishBackend(t, out) ==
    /\ backend' = [backend EXCEPT ![t] = [@ EXCEPT !.pc = "done", !.out = out,
                                                   !.cancel = FALSE,
                                                   !.waiters = <<>>]]
    /\ ready' = EnqAll(Tail(ready), "C", backend[t].waiters)

\* The payload perform_query reads from consultation_state when it first
\* runs; perform_scheduling uses the arguments of its own call.
PayloadOf(t) ==
    IF backend[t].kind = "rag" THEN consultation_state.current_query ELSE t

\* A task that posts without looking whether the URL is configured.
BackendStartAnyway(t) ==
    /\ Settled
    /\ UNCHANGED <<lim, heard>>
    /\ Runs("B", t)
    /\ backend[t].pc = "created"
    /\ IF backend[t].cancel THEN FinishBackend(t, "cancelled")
       ELSE IF PayloadOf(t) = None THEN FinishBackend(t, "unexpected")
       ELSE /\ backend' = [backend EXCEPT ![t] = [@ EXCEPT !.pc = "posting",
                                                     !.payload = PayloadOf(t)]]
            /\ ready' = Tail(ready)
    /\ UNCHANGED <<consultation_state, active_session, urls, now, callers,
                   ticker, mon, mgr, epc, used>>

\* perform_query / perform_scheduling from the first line to the await of
\* client.post: without a URL it returns the configuration apology; a
\* query of None raises AttributeError on .strip().
BackendStart(t) ==
    /\ Settled
    /\ UNCHANGED <<lim, heard>>
    /\ Runs("B", t)
    /\ backend[t].pc = "created"
    /\ IF backend[t].cancel THEN FinishBackend(t, "cancelled")
       ELSE IF ~urls[backend[t].kind] THEN FinishBackend(t, "config")
       ELSE IF PayloadOf(t) = None THEN FinishBackend(t, "unexpected")
       ELSE /\ backend' = [backend EXCEPT ![t] = [@ EXCEPT !.pc = "posting",
                                                     !.payload = PayloadOf(t)]]
            /\ ready' = Tail(ready)
    /\ UNCHANGED <<consultation_state, active_session, urls, now, callers,
                   ticker, mon, mgr, epc, used>>

\* The ends an HTTP exchange of a kind can have: a response (one that names
\* no appointment is "nok"), a timeout, an error status or another failure;
\* lim.outcomes is the part of them the environment produces in a run.
BackendOutcomes(kind) ==
    ({"ok", "timeout", "http", "unexpected"} \cup
     (IF kind = "appointment" THEN {"nok"} ELSE {})) \cap lim.outcomes

\* The HTTP exchange ends (environment) and the task is scheduled.
BackendRespond(t) ==
    /\ Settled
    /\ UNCHANGED <<lim, heard>>
    /\ backend[t].pc = "posting" /\ ~backend[t].cancel
    /\ backend' = [backend EXCEPT ![t].pc = "replied"]
    /\ ready' = Enq(ready, <<"B", t>>)
    /\ UNCHANGED <<consultation_state, active_session, urls, now, callers,
                   ticker, mon, mgr, epc, used>>

\* The task's last step: it is cancelled, or the exchange gave a response,
\* a timeout, an error status or another failure, and the task returns or
\* raises; the callers awaiting it are scheduled in the order in which they
\* awaited.
BackendFinish(t) ==
    /\ Settled
    /\ UNCHANGED <<lim, heard>>
    /\ Runs("B", t)
    /\ backend[t].pc \in {"posting", "replied"}
    /\ IF backend[t].cancel THEN FinishBackend(t, "cancelled")
       ELSE \E o \in BackendOutcomes(backend[t].kind) : FinishBackend(t, o)
    /\ UNCHANGED <<consultation_state, active_session, urls, now, callers,
                   ticker, mon, mgr, epc, used>>

\* ------------------------------------------------ Progress Feedback Ticker
StageName(s) == CASE s = 1 -> "initial" [] s = 2 -> "processing" [] OTHER -> "patience"

DoneTicker == [NoTicker EXCEPT !.pc = "done"]

FinishTicker(f) ==
    /\ ticker' = [ticker EXCEPT ![f] = DoneTicker]
    /\ ready' = EnqAll(Tail(ready), "C", ticker[f].waiters)

\* A ticker that does not sleep between its stages.
AfterStageAtOnce(f, cs) ==
    IF ticker[f].stage = 1
    THEN [ticker[f] EXCEPT !.pc = "sleep", !.stage = 2, !.wake = now]
    ELSE IF cs.is_active
    THEN [ticker[f] EXCEPT !.pc = "sleep", !.stage = 3, !.wake = now]
    ELSE DoneTicker

\* What controlled_feedback does after a stage: the second sleep follows the
\* first stage unconditionally; after that `while is_active` decides between
\* another sleep(8.0) and the end of the task.
AfterStage(f, cs) ==
    IF ticker[f].stage = 1
    THEN [ticker[f] EXCEPT !.pc = "sleep", !.stage = 2, !.wake = now + ProcessingWait]
    ELSE IF cs.is_active
    THEN [ticker[f] EXCEPT !.pc = "sleep", !.stage = 3, !.wake = now + PatienceWait]
    ELSE DoneTicker

\* `if consultation_state["is_active"] and active_session:` before each say
MaySpeak(cs, session) == cs.is_active /\ session

\* CancelledError at the await the ticker stands at: it logs and ends.
TickerCancelled(f) ==
    /\ Settled
    /\ UNCHANGED <<lim, heard>>
    /\ Runs("F", f)
    /\ ticker[f].cancel
    /\ FinishTicker(f)
    /\ UNCHANGED <<consultation_state, active_session, urls, now, callers,
                   backend, mon, mgr, epc, used>>

\* First step: consultation_start = consultation_state["start_time"], then
\* up to `await asyncio.sleep(3.0)`.
TickerStart(f) ==
    /\ Settled
    /\ UNCHANGED <<lim, heard>>
    /\ Runs("F", f)
    /\ ticker[f].pc = "created" /\ ~ticker[f].cancel
    /\ ticker' = [ticker EXCEPT ![f] = [@ EXCEPT !.pc = "sleep", !.stage = 1,
                                                 !.wake = now + InitialWait,
                                                 !.start = consultation_state.start_time]]
    /\ ready' = Tail(ready)
    /\ UNCHANGED <<consultation_state, active_session, urls, now, callers,
                   backend, mon, mgr, epc, used>>

\* The sleep's timer fires and schedules the ticker.
TickerTimer(f) ==
    /\ Settled
    /\ UNCHANGED <<lim, heard>>
    /\ ticker[f].pc = "sleep" /\ ~ticker[f].cancel
    /\ ticker[f].wake <= now
    /\ ticker' = [ticker EXCEPT ![f].pc = "woken"]
    /\ ready' = Enq(ready, <<"F", f>>)
    /\ UNCHANGED <<consultation_state, active_session, urls, now, callers,
                   backend, mon, mgr, epc, used>>

\* The ticker resumes after a sleep: it begins the stage's utterance, or
\* skips the stage.  In the patience loop `current_time - consultation_start`
\* comes before say: with consultation_start None it raises TypeError and the
\* task ends (`except Exception`).
TickerWake(f) ==
    /\ Settled
    /\ UNCHANGED lim
    /\ Runs("F", f)
    /\ ticker[f].pc = "woken" /\ ~ticker[f].cancel
    /\ LET t == IF MaySpeak(consultation_state, active_session)
                THEN IF ticker[f].stage = 3 /\ ticker[f].start = None
                     THEN DoneTicker
                     ELSE [ticker[f] EXCEPT !.pc = "say"]
                ELSE AfterStage(f, consultation_state)
       IN /\ ticker' = [ticker EXCEPT ![f] = t]
          /\ ready' = IF t.pc = "done" THEN EnqAll(Tail(ready), "C", ticker[f].waiters)
                      ELSE Tail(ready)
          /\ heard' = IF t.pc = "say" THEN Hear(StageName(ticker[f].stage)) ELSE heard
    /\ UNCHANGED <<consultation_state, active_session, urls, now, callers,
                   backend, mon, mgr, epc, used>>

\* The ticker's utterance ends (environment) and the ticker is scheduled.
TickerSayEnds(f) ==
    /\ Settled
    /\ UNCHANGED <<lim, heard>>
    /\ ticker[f].pc = "say" /\ ~ticker[f].cancel
    /\ ticker' = [ticker EXCEPT ![f].pc = "said"]
    /\ ready' = Enq(ready, <<"F", f>>)
    /\ UNCHANGED <<consultation_state, active_session, urls, now, callers,
                   backend, mon, mgr, epc, used>>

\* A ticker whose say is shielded from cancellation: it resumes after the
\* utterance and records the stage although it has been cancelled.
TickerSaidShielded(f) ==
    /\ Settled
    /\ UNCHANGED <<lim, heard>>
    /\ Runs("F", f)
    /\ ticker[f].pc = "said"
    /\ \E ok \in BOOLEAN :
       IF ~ok
       THEN /\ FinishTicker(f)
            /\ UNCHANGED consultation_state
       ELSE LET cs == [consultation_state EXCEPT
                          !.feedback_sent = Append(@, StageName(ticker[f].stage))]
                t == AfterStage(f, cs)
            IN /\ consultation_state' = cs
               /\ ticker' = [ticker EXCEPT ![f] = t]
               /\ ready' = IF t.pc = "done"
                           THEN EnqAll(Tail(ready), "C", ticker[f].waiters)
                           ELSE Tail(ready)
    /\ UNCHANGED <<active_session, urls, now, callers, backend, mon, mgr,
                   epc, used>>

\* The ticker resumes after say: feedback_sent.append(stage), then the next
\* sleep; an exception of say ends the task (`except Exception`).
TickerSaid(f) ==
    /\ Settled
    /\ UNCHANGED <<lim, heard>>
    /\ Runs("F", f)
    /\ ticker[f].pc = "said" /\ ~ticker[f].cancel
    /\ \E ok \in BOOLEAN :
       IF ~ok
       THEN /\ FinishTicker(f)
            /\ UNCHANGED consultation_state
       ELSE LET cs == [consultation_state EXCEPT
                          !.feedback_sent = Append(@, StageName(ticker[f].stage))]
                t == AfterStage(f, cs)
            IN /\ consultation_state' = cs
               /\ ticker' = [ticker EXCEPT ![f] = t]
               /\ ready' = IF t.pc = "done"
                           THEN EnqAll(Tail(ready), "C", ticker[f].waiters)
                           ELSE Tail(ready)
    /\ UNCHANGED <<active_session, urls, now, callers, backend, mon, mgr,
                   epc, used>>

\* ---------------------------------------------------- Idle-Silence Monitor
\* A monitor that polls half as often.
SleepingTwice(m) == [m EXCEPT !.pc = "sleep", !.wake = now + 2 * PollPeriod, !.cur = None]

Sleeping(m) == [m EXCEPT !.pc = "sleep", !.wake = now + PollPeriod, !.cur = None]

\* Variants of the monitor's three tests, each with a plausible slip: the
\* is_active test left out, the grace window cut to one poll period, the
\* silence threshold left out of should_check_in.
SkipActiveNever(cs) == FALSE
SkipGraceOnePoll(cs, current_time) ==
    cs.last_completed # None /\ current_time - cs.last_completed < PollPeriod
ShouldCheckInAnySilence(silence_duration, warnings) ==
    warnings < max_silence_warnings

\* `if consultation_state["is_active"]: continue`
SkipActive(cs) == cs.is_active

\* `if consultation_state.get("last_completed"):` (None and 0 are falsy)
\* `    if current_time - last_completed < 45: continue`
SkipGrace(cs, current_time) ==
    cs.last_completed # None /\ current_time - cs.last_completed < GraceWindow

\* should_check_in
ShouldCheckIn(silence_duration, warnings) ==
    silence_duration >= CheckInThreshold /\ warnings < max_silence_warnings

\* A long-idle test that asks for more than the threshold.
LongIdleLate(silence_duration) == silence_duration > LongIdleThreshold

\* `elif silence_duration >= 300:`
LongIdle(silence_duration) == silence_duration >= LongIdleThreshold

MonitorTimer ==
    /\ Settled
    /\ UNCHANGED <<lim, heard>>
    /\ mon.pc = "sleep" /\ ~mon.cancel
    /\ mon.wake <= now
    /\ mon' = [mon EXCEPT !.pc = "woken"]
    /\ ready' = Enq(ready, <<"M", 0>>)
    /\ UNCHANGED <<consultation_state, active_session, urls, now, callers,
                   backend, ticker, mgr, epc, used>>

\* One pass of the loop of _fixed_silence_monitor, from the end of
\* asyncio.sleep(30) to the next await.
MonitorWake ==
    /\ Settled
    /\ UNCHANGED lim
    /\ Runs("M", 0)
    /\ mgr.class = "FixedConversationManager"
    /\ mon.pc = "woken" /\ ~mon.cancel
    /\ ready' = Tail(ready)
    /\ LET current_time == now
           silence_duration == current_time - mgr.last_user_activity
       IN  IF ~mgr.is_active
           THEN /\ mon' = [mon EXCEPT !.pc = "done"]
                /\ UNCHANGED mgr
           ELSE IF SkipActive(consultation_state)
                   \/ SkipGrace(consultation_state, current_time)
           THEN /\ mon' = Sleeping(mon)
                /\ UNCHANGED mgr
           ELSE IF ShouldCheckIn(silence_duration, mgr.silence_warnings)
           THEN /\ mgr' = [mgr EXCEPT !.silence_warnings = @ + 1]
                /\ mon' = [mon EXCEPT !.pc = "say", !.cur = current_time]
           ELSE IF LongIdle(silence_duration)
           THEN /\ mgr' = [mgr EXCEPT !.silence_warnings = 0,
                                      !.last_user_activity = current_time]
                /\ mon' = Sleeping(mon)
           ELSE /\ mon' = Sleeping(mon)
                /\ UNCHANGED mgr
    /\ heard' = IF mon'.pc = "say" THEN Hear("checkin") ELSE heard
    /\ UNCHANGED <<consultation_state, active_session, urls, now, callers,
                   backend, ticker, epc, used>>

\* The check-in utterance ends (environment) and the monitor is scheduled.
MonitorSayEnds ==
    /\ Settled
    /\ UNCHANGED <<lim, heard>>
    /\ mon.pc = "say" /\ ~mon.cancel
    /\ mon' = [mon EXCEPT !.pc = "said"]
    /\ ready' = Enq(ready, <<"M", 0>>)
    /\ UNCHANGED <<consultation_state, active_session, urls, now, callers,
                   backend, ticker, mgr, epc, used>>

\* After say: mark_agent_response() unless say raised (the session's
\* agent_speech_committed events, which call it too, are left out: nothing
\* reads last_agent_response, so here it records the monitor's own speech), then
\* self.last_user_activity = current_time, then the next sleep.
MonitorSaid ==
    /\ Settled
    /\ UNCHANGED <<lim, heard>>
    /\ Runs("M", 0)
    /\ mgr.class = "FixedConversationManager"
    /\ mon.pc = "said" /\ ~mon.cancel
    /\ \E ok \in BOOLEAN :
         mgr' = [mgr EXCEPT
                   !.last_agent_response = IF ok THEN now ELSE @,
                   !.last_user_activity = mon.cur]
    /\ mon' = Sleeping(mon)
    /\ ready' = Tail(ready)
    /\ UNCHANGED <<consultation_state, active_session, urls, now, callers,
                   backend, ticker, epc, used>>

\* CancelledError in the monitor: `break`; stop_monitoring's await ends.
MonitorCancelled ==
    /\ Settled
    /\ UNCHANGED <<lim, heard>>
    /\ Runs("M", 0)
    /\ mon.cancel
    /\ mon' = [mon EXCEPT !.pc = "done", !.cancel = FALSE]
    /\ ready' = Append(Tail(ready), <<"E", 0>>)
    /\ UNCHANGED <<consultation_state, active_session, urls, now, callers,
                   backend, ticker, mgr, epc, used>>

\* ------------------------------- the legacy monitor (agent_20250716.py)
LegacySleeping(m) ==
    [m EXCEPT !.pc = "sleep", !.wake = now + LegacyPollPeriod, !.cur = None]

\* A check-in test that lets the counter pass max_silence_warnings.
LegacyShouldCheckInOneMore(silence_duration, warnings) ==
    /\ silence_duration >= LegacyCheckInThreshold
    /\ warnings <= legacy_max_silence_warnings

\* `if silence_duration >= 15 and self.silence_warnings < self.max_silence_warnings:`
LegacyShouldCheckIn(silence_duration, warnings) ==
    /\ silence_duration >= LegacyCheckInThreshold
    /\ warnings < legacy_max_silence_warnings

\* A closing test that does not look at the silence.
LegacyShouldCloseAtOnce(silence_duration, warnings) ==
    warnings >= legacy_max_silence_warnings

\* `elif silence_duration >= 60 and self.silence_warnings >= self.max_silence_warnings:`
LegacyShouldClose(silence_duration, warnings) ==
    /\ silence_duration >= LegacyClosingThreshold
    /\ warnings >= legacy_max_silence_warnings

\* One pass of the loop of _monitor_silence, from the end of
\* asyncio.sleep(15) to the next await.
LegacyWake ==
    /\ Settled
    /\ UNCHANGED lim
    /\ Runs("M", 0)
    /\ mgr.class = "ConversationManager"
    /\ mon.pc = "woken" /\ ~mon.cancel
    /\ ready' = Tail(ready)
    /\ LET current_time == now
           silence_duration == current_time - mgr.last_user_activity
       IN  IF ~mgr.is_active
           THEN /\ mon' = [mon EXCEPT !.pc = "done"]
                /\ UNCHANGED mgr
           ELSE IF LegacyShouldCheckIn(silence_duration, mgr.silence_warnings)
           THEN /\ mgr' = [mgr EXCEPT !.silence_warnings = @ + 1]
                /\ mon' = [mon EXCEPT !.pc = "say", !.cur = current_time]
           ELSE IF LegacyShouldClose(silence_duration, mgr.silence_warnings)
           THEN /\ mon' = [mon EXCEPT !.pc = "bye", !.cur = current_time]
                /\ UNCHANGED mgr
           ELSE /\ mon' = LegacySleeping(mon)
                /\ UNCHANGED mgr
    /\ heard' = IF mon'.pc = "say" THEN Hear("checkin")
                ELSE IF mon'.pc = "bye" THEN Hear("closing")
                ELSE heard
    /\ UNCHANGED <<consultation_state, active_session, urls, now, callers,
                   backend, ticker, epc, used>>

\* After the check-in (whether or not say raised):
\* self.last_user_activity = current_time, then the next sleep.
LegacySaid ==
    /\ Settled
    /\ UNCHANGED <<lim, heard>>
    /\ Runs("M", 0)
    /\ mgr.class = "ConversationManager"
    /\ mon.pc = "said" /\ ~mon.cancel
    /\ mgr' = [mgr EXCEPT !.last_user_activity = mon.cur]
    /\ mon' = LegacySleeping(mon)
    /\ ready' = Tail(ready)
    /\ UNCHANGED <<consultation_state, active_session, urls, now, callers,
                   backend, ticker, epc, used>>

\* The closing utterance ends (environment) and the monitor is scheduled.
LegacyByeEnds ==
    /\ Settled
    /\ UNCHANGED <<lim, heard>>
    /\ mon.pc = "bye" /\ ~mon.cancel
    /\ mon' = [mon EXCEPT !.pc = "byed"]
    /\ ready' = Enq(ready, <<"M", 0>>)
    /\ UNCHANGED <<consultation_state, active_session, urls, now, callers,
                   backend, ticker, mgr, epc, used>>

\* After the closing utterance: self.silence_warnings = 0,
\* self.last_user_activity = current_time, then the next sleep.
LegacyByeSaid ==
    /\ Settled
    /\ UNCHANGED <<lim, heard>>
    /\ Runs("M", 0)
    /\ mgr.class = "ConversationManager"
    /\ mon.pc = "byed" /\ ~mon.cancel
    /\ mgr' = [mgr EXCEPT !.silence_warnings = 0, !.last_user_activity = mon.cur]
    /\ mon' = LegacySleeping(mon)
    /\ ready' = Tail(ready)
    /\ UNCHANGED <<consultation_state, active_session, urls, now, callers,
                   backend, ticker, epc, used>>

\* update_user_activity, called by user_speech_committed and
\* user_started_speaking.
UserActivity ==
    /\ Settled
    /\ UNCHANGED <<lim, heard>>
    /\ used.events < lim.events
    /\ epc = "running"
    /\ mgr' = [mgr EXCEPT !.last_user_activity = now, !.silence_warnings = 0]
    /\ used' = [used EXCEPT !.events = @ + 1]
    /\ UNCHANGED <<consultation_state, active_session, urls, now, ready,
                   callers, backend, ticker, mon, epc>>

\* ------------------------------------------------------------- entrypoint
\* The session ends: entrypoint's finally block up to the await inside
\* stop_monitoring (is_active = False, silence_check_task.cancel()).
Shutdown ==
    /\ Settled
    /\ UNCHANGED <<lim, heard>>
    /\ epc = "running"
    /\ epc' = "stopping"
    /\ mgr' = [mgr EXCEPT !.is_active = FALSE]
    /\ mon' = [mon EXCEPT !.cancel = TRUE]
    /\ ready' = Enq(ready, <<"M", 0>>)
    /\ UNCHANGED <<consultation_state, active_session, urls, now, callers,
                   backend, ticker, used>>

\* A reset at the end of the session that leaves the task handle in place.
SessionResetKeepsTask(cs) ==
    [IdleState EXCEPT !.last_completed = cs.last_completed, !.task = cs.task]

\* The rest of the finally block: consultation_state.update({...}) without
\* last_completed, and active_session = None.  No task is cancelled.
SessionReset(cs) == [IdleState EXCEPT !.last_completed = cs.last_completed]

EntrypointClose ==
    /\ Settled
    /\ UNCHANGED <<lim, heard>>
    /\ Runs("E", 0)
    /\ epc = "stopping"
    /\ epc' = "closed"
    /\ consultation_state' = SessionReset(consultation_state)
    /\ active_session' = FALSE
    /\ ready' = Tail(ready)
    /\ backend' = Collect(backend, consultation_state', callers)
    /\ UNCHANGED <<urls, now, callers, ticker, mon, mgr, used>>

\* ------------------------------------------------------------------- time
Deadlines ==
    {ticker[f].wake : f \in {g \in Callers : ticker[g].pc = "sleep" /\ ~ticker[g].cancel}}
    \cup (IF mon.pc = "sleep" /\ ~mon.cancel THEN {mon.wake} ELSE {})

\* Time passes only while the loop has nothing to run and no timer is due.
Quiet == ready = <<>> /\ \A d \in Deadlines : d > now

\* In the specifications with brief utterances (lim.brief) a ticker's
\* utterance ends within the instant it began: no time passes while it lasts.
Lasting == lim.brief => \A f \in Callers : ticker[f].pc # "say"

\* One second passes, in the specifications that watch the clock second by
\* second (lim.fine).
Tick ==
    /\ Settled
    /\ UNCHANGED <<lim, heard>>
    /\ Quiet
    /\ Lasting
    /\ lim.fine
    /\ now < lim.time
    /\ now' = now + 1
    /\ UNCHANGED <<consultation_state, active_session, urls, ready, callers,
                   backend, ticker, mon, mgr, epc, used>>

\* Nothing happens until the next timer is due.
TickToTimer ==
    /\ Settled
    /\ UNCHANGED <<lim, heard>>
    /\ Quiet
    /\ Lasting
    /\ Deadlines # {}
    /\ LET d == CHOOSE x \in Deadlines : \A y \in Deadlines : x <= y
       IN /\ d <= lim.time
          /\ now' = d
    /\ UNCHANGED <<consultation_state, active_session, urls, ready, callers,
                   backend, ticker, mon, mgr, epc, used>>

\* ---------------------------------------------------------- specification
\* The steps of the tool calls, the backend tasks and the tickers.
Coordinator ==
    \/ \E c \in Callers, kind \in {"rag", "appointment"} : Submit(c, kind)
    \/ \E c \in Callers :
         \/ QueryEnter(c)
         \/ ScheduleEnter(c)
         \/ ConfirmSayEnds(c)
         \/ ScheduleConfirmed(c)
         \/ CallerOwnResume(c)
         \/ CallerFinResume(c)
         \/ BackendStart(c)
         \/ BackendRespond(c)
         \/ BackendFinish(c)
         \/ TickerCancelled(c)
         \/ TickerStart(c)
         \/ TickerTimer(c)
         \/ TickerWake(c)
         \/ TickerSayEnds(c)
         \/ TickerSaid(c)
    \/ TickToTimer

\* A tool call that joined an operation in flight resumes.
Joining == \E c \in Callers : CallerJoinResume(c)

\* The framework cancels tool calls.
Cancellation ==
    \E c \in Callers : CancelCaller(c) \/ CallerCancelledEarly(c)

\* The end of the session.
Session ==
    \/ Shutdown
    \/ MonitorCancelled
    \/ EntrypointClose

\* The monitor's loop and the events it reads.
Monitor ==
    \/ MonitorTimer
    \/ MonitorWake
    \/ MonitorSayEnds
    \/ MonitorSaid
    \/ UserActivity

Delivery == \E c \in Callers : Deliver(c)

NextCore == Delivery \/ Coordinator \/ Joining \/ Cancellation
NextLive == Delivery \/ Coordinator \/ Joining
NextMon == Delivery \/ Coordinator \/ Monitor
Next ==
    Delivery \/ Coordinator \/ Joining \/ Cancellation \/ Session \/ Monitor \/ Tick

\* Every step but the arrival of a tool call: the loop runs what is ready,
\* HTTP exchanges and utterances end, timers fire.
Progress ==
    \/ Delivery
    \/ \E c \in Callers :
         \/ QueryEnter(c)
         \/ ScheduleEnter(c)
         \/ ConfirmSayEnds(c)
         \/ ScheduleConfirmed(c)
         \/ CallerJoinResume(c)
         \/ CallerOwnResume(c)
         \/ CallerFinResume(c)
         \/ BackendStart(c)
         \/ BackendRespond(c)
         \/ BackendFinish(c)
         \/ TickerCancelled(c)
         \/ TickerStart(c)
         \/ TickerTimer(c)
         \/ TickerWake(c)
         \/ TickerSayEnds(c)
         \/ TickerSaid(c)

\* Spec: the coordinator under tool calls and cancellations while the session
\* runs, over a horizon shorter than the monitor's first poll (the monitor
\* writes nothing the coordinator reads).
Spec == Init /\ [][NextCore]_vars
\* One tool call at a time, the clock watched second by second.
NextOne == Delivery \/ Coordinator \/ Tick
SpecOne == OneInit /\ [][NextOne]_vars
\* One tool call, schedule_appointment given one of DateInputs.
SpecDate == DateInit /\ [][NextOne]_vars
\* One schedule_appointment call for each phone number of PhoneInputs.
SpecPhone == PhoneInit /\ [][NextOne]_vars
\* One operation and the Impatience Responder, second by second.
NextAsk ==
    \/ Delivery
    \/ Coordinator
    \/ \E c \in Callers : SubmitImpatience(c) \/ ImpatienceEnter(c)
    \/ Tick
SpecAsk == AskInit /\ [][NextAsk]_vars
\* The monitor over six minutes beside one tool call, the user silent.
NextLong ==
    \/ Delivery
    \/ Coordinator
    \/ MonitorTimer
    \/ MonitorWake
    \/ MonitorSayEnds
    \/ MonitorSaid
SpecLong == LongInit /\ [][NextLong]_vars
\* Either manager alone with the user's events, the clock watched second by
\* second: FixedConversationManager (agent.py) or ConversationManager
\* (agent_20250716.py).
NextManagers ==
    \/ Monitor
    \/ LegacyWake
    \/ LegacySaid
    \/ LegacyByeEnds
    \/ LegacyByeSaid
    \/ Tick
SpecManagers == (IdleInit \/ LegacyInit) /\ [][NextManagers]_vars
\* The coordinator without cancellations, whatever URLs are configured.
SpecConf == ConfInit /\ [][NextLive]_vars
\* The coordinator under tool calls, cancellations and the end of the session.
NextEnd == Delivery \/ Coordinator \/ Joining \/ Cancellation \/ Session
SpecEnd == EndInit /\ [][NextEnd]_vars
\* The monitor alone, no tool call, the clock watched second by second.
NextIdle == Monitor \/ Tick
SpecIdle == IdleInit /\ [][NextIdle]_vars
\* SpecLive: the coordinator without cancellations; the loop is fair and
\* every HTTP exchange and utterance ends.
SpecLive == LiveInit /\ [][NextLive]_vars /\ WF_vars(Progress)
\* SpecMon: the monitor beside one tool call and the user's activity.
SpecMon == MonInit /\ [][NextMon]_vars

\* ----------------------------------------------------------------- claims
\* A backend task that has been created and has not finished.
Outstanding(t) == backend[t].pc \in {"created", "posting", "replied"}

\* A ticker in its waiting-or-speaking state, not counting one whose
\* cancellation is already requested.
Alive(f) == ticker[f].pc \in {"sleep", "woken", "say", "said"} /\ ~ticker[f].cancel

\* The caller started an operation of its own (it awaits, or awaited, the
\* backend task it created).
Originated(c) == callers[c].wait = c

\* C1: single-flight safety: at every instant at most one backend task
\* (perform_query / perform_scheduling) is outstanding.
C1_SingleFlight == Cardinality({t \in Callers : Outstanding(t)}) <= 1

\* C2: join semantics: a tool call whose awaited backend task resolved to a
\* result text, be it the call that started the task or one that joined it,
\* returns exactly that text (a call the framework cancelled is not counted).
C2_SameResult ==
    \A c \in Callers :
        (/\ callers[c].pc = "returned"
         /\ callers[c].wait # None
         /\ callers[c].exit # "superseded"
         /\ AwaitOutcome(backend[callers[c].wait], FALSE) = "result")
        => callers[c].ret = ResultText(backend[callers[c].wait])

\* C3: liveness of Submit: with a fair loop and exchanges that end, every
\* tool call that awaits a backend task or a ticker eventually returns a
\* result text.
C3_EveryCallerReturns ==
    \A c \in Callers :
        (callers[c].pc \in {"join", "own", "fin"}) ~> (callers[c].pc = "returned")

\* C4: no failure escapes Submit: no tool call ends by raising the timeout,
\* the HTTP failure or the unexpected exception of the backend task.
C4_NoEscape ==
    \A c \in Callers :
        callers[c].pc = "raised" => callers[c].exit \notin {"timeout", "http", "unexpected"}

\* C5: teardown on every exit path: when the tool call that started an
\* operation returns, its ticker has finished, consultation_state is idle
\* and last_completed is the time of the teardown.
C5_TeardownDone ==
    \A c \in Callers :
        (callers[c].pc = "returned" /\ Originated(c))
        => /\ ticker[c].pc = "done"
           /\ consultation_state = [IdleState EXCEPT !.last_completed = now]

\* C6: ticker exclusivity: in every reachable state at most one ticker is
\* alive in the waiting-or-speaking state.
C6_OneTicker == Cardinality({f \in Callers : Alive(f)}) <= 1

\* C7: no late speech: the ticker of an operation begins no utterance once
\* the tool call that started the operation has returned.
C7_NoLateSpeech ==
    [][\A f \in Callers :
          (ticker[f].pc # "say" /\ ticker'[f].pc = "say") => callers[f].pc # "done"]_vars

\* The monitor begins a check-in utterance in this step.
BeginsCheckIn == mon.pc # "say" /\ mon'.pc = "say"

\* The monitor has just run a pass of its loop and gone back to sleep.
JustPolled == mon.pc = "sleep" /\ mon.wake = now + PollPeriod /\ mon.cur = None

\* The monitor has spoken a check-in before the current instant
\* (last_agent_response is the end of its latest utterance).
SpokeBefore ==
    mgr.last_agent_response > StartupDelay /\ mgr.last_agent_response < now

\* C8: idle suppression while active: the monitor begins no check-in
\* utterance while consultation_state["is_active"] is true.
C8_SilentWhileActive == [][BeginsCheckIn => ~consultation_state.is_active]_vars

\* A pass of the loop found a check-in due (60 s of silence, no warning used
\* up, no grace window) and skipped it because an operation is active.
C8_SkippedWhileActive ==
    /\ JustPolled
    /\ consultation_state.is_active
    /\ ~SkipGrace(consultation_state, now)
    /\ ShouldCheckIn(now - mgr.last_user_activity, mgr.silence_warnings)

\* C9: grace window: the monitor begins no check-in utterance less than 45 s
\* after last_completed.
C9_GraceWindow ==
    [][BeginsCheckIn =>
          (consultation_state.last_completed = None
           \/ now - consultation_state.last_completed >= GraceWindow)]_vars

\* The monitor speaks a check-in after an operation has completed, 45 s or
\* more after its completion.
C9_SpeaksAfterGrace ==
    /\ mon.pc = "say" /\ mon.cur = now
    /\ consultation_state.last_completed # None
    /\ now - consultation_state.last_completed >= GraceWindow

\* C10: idle re-arm: the monitor begins a check-in only when the silence,
\* now minus last_user_activity, has reached 60 s; after a check-in, whose
\* end resets last_user_activity, that takes 60 s from the value it was reset
\* to.
C10_ReArm ==
    [][BeginsCheckIn => now - mgr.last_user_activity >= CheckInThreshold]_vars

\* After a check-in, with the warning counter back at zero and nothing else
\* in the way, a pass of the loop speaks no second check-in because the
\* silence since the reset is below 60 s.
C10_DeclinedAfterCheckIn ==
    /\ JustPolled
    /\ SpokeBefore
    /\ mgr.silence_warnings < max_silence_warnings
    /\ ~SkipActive(consultation_state)
    /\ ~SkipGrace(consultation_state, now)
    /\ mgr.last_user_activity < now
    /\ now - mgr.last_user_activity < CheckInThreshold

\* The lookup that tool call c started, the only tool call of the session
\* so far, returns the backend's answer in this step, the answer having
\* resolved d seconds after the operation's start.
AnswersAfter(c, d) ==
    /\ used.submits = 1
    /\ callers[c].pc # "returned" /\ callers'[c].pc = "returned"
    /\ callers[c].kind = "rag" /\ Originated(c)
    /\ callers'[c].exit = "result"
    /\ consultation_state.start_time # None
    /\ now = consultation_state.start_time + d

\* The answer is returned and the completion time recorded.
AnswerReturned(c) ==
    /\ callers'[c].ret = Text("answer", "rag", backend[c].payload)
    /\ consultation_state'.last_completed = now

\* Scenario A as stated: a lookup, the session's only tool call, whose answer
\* resolves 10 s after its start
\* has spoken one initial message at 3 s and one processing message at 9 s,
\* no patience message, returns the answer and records the completion time.
C11_ScenarioA_AsStated ==
    [][\A c \in Callers : AnswersAfter(c, 10) =>
          /\ heard' = <<[what |-> "initial", at |-> now - 7],
                        [what |-> "processing", at |-> now - 1]>>
          /\ AnswerReturned(c)]_vars

\* C11: Scenario A: a lookup that is the session's only tool call so far
\* (nothing supersedes it) and whose answer resolves 10 s after its start has
\* spoken exactly one initial message, at
\* 3 s; the ticker waits its 6 s from the end of that utterance, so that at
\* most one processing message follows, at 9 s or later, and none when the
\* wait has not elapsed at 10 s; no patience message is spoken; the call
\* returns the backend's answer and last_completed is the time of the return.
C11_ScenarioA ==
    [][\A c \in Callers : AnswersAfter(c, 10) =>
          /\ Len(heard') \in {1, 2}
          /\ heard'[1] = [what |-> "initial", at |-> now - 7]
          /\ Len(heard') = 2 =>
                /\ heard'[2].what = "processing"
                /\ heard'[2].at \in {now - 1, now}
          /\ AnswerReturned(c)]_vars

\* A lookup has returned its answer 10 s after its start, the initial message
\* spoken at 3 s and no processing message spoken.
C11_AnsweredWithoutProcessing ==
    /\ used.submits = 1
    /\ callers[1].pc = "returned" /\ callers[1].exit = "result"
    /\ callers[1].kind = "rag"
    /\ heard = <<[what |-> "initial", at |-> now - 7]>>
    /\ consultation_state.last_completed = now

\* The scheduling call c started an operation whose backend task ended in
\* httpx.TimeoutException, and has returned.
TimedOutScheduling(c) ==
    /\ callers[c].pc = "returned" /\ callers[c].kind = "appointment"
    /\ Originated(c)
    /\ backend[c].pc = "done" /\ backend[c].out = "timeout"

\* C12: Scenario E: when the backend call of a scheduling request times
\* out, schedule_appointment returns the scheduling timeout utterance, its
\* finally block has run (the state is idle, is_active false, last_completed
\* the time of the return) and the ticker has finished before the return.
C12_ScenarioE ==
    \A c \in Callers :
        TimedOutScheduling(c)
        => /\ callers[c].ret = Text("timeout", "appointment", 0)
           /\ ~consultation_state.is_active
           /\ consultation_state = [IdleState EXCEPT !.last_completed = now]
           /\ ticker[c].pc = "done"

\* A scheduling call whose backend timed out has returned after cancelling
\* and awaiting its ticker, which had spoken at least once.
C12_TimedOutAfterFeedback ==
    \E c \in Callers :
        /\ TimedOutScheduling(c)
        /\ callers[c].fin = c
        /\ Len(heard) >= 2

\* The silence the monitor measures: the time since last_user_activity.
Silence == now - mgr.last_user_activity

C14_ActiveIffTask ==
    consultation_state.is_active <=> consultation_state.task # None

\* The session has ended while a backend task was outstanding: the state is
\* reset and the task still runs.
C14_ResetWhileOutstanding ==
    /\ epc = "closed"
    /\ \E t \in Callers : Outstanding(t)
    /\ ~consultation_state.is_active

\* C15: invariant I5: feedback_sent is empty in every state in which
\* is_active is false.
C15_IdleNoStages ==
    ~consultation_state.is_active => consultation_state.feedback_sent = <<>>

\* C16: invariant I4: a step that turns is_active from true to false sets
\* last_completed to the time of the step, and no step changes
\* last_completed when is_active was already false.
C16_CompletedOnceAtEnd ==
    [][/\ (consultation_state.is_active /\ ~consultation_state'.is_active)
            => consultation_state'.last_completed = now
       /\ ~consultation_state.is_active
            => consultation_state'.last_completed = consultation_state.last_completed
      ]_vars

\* The calls of session.say that have begun and not ended: the tickers'
\* messages, the confirmations of schedule_appointment, the monitor's check-in.
SaysInFlight ==
    Cardinality({f \in Callers : ticker[f].pc = "say"})
    + Cardinality({c \in Callers : callers[c].pc = "confirm"})
    + (IF mon.pc = "say" THEN 1 ELSE 0)

\* C17: speech serialization: at every instant at most one call of
\* session.say is in flight, over the tickers' feedback messages, the
\* monitor's check-in and the confirmation of schedule_appointment.
C17_OneSay == SaysInFlight <= 1

\* The failures of the HTTP exchange: httpx.TimeoutException,
\* httpx.HTTPStatusError, any other exception.
Failures == {"timeout", "http", "unexpected"}

\* The tool call c started an operation, its backend task ended in failure
\* e, and the call, which the framework did not cancel, has returned.
FailedWith(c, e) ==
    /\ callers[c].pc = "returned" /\ Originated(c)
    /\ callers[c].exit # "superseded"
    /\ backend[c].pc = "done" /\ backend[c].out = e

\* C18: error mapping: when the backend task of the tool call that started
\* the operation ends in a timeout, an HTTP status failure or another
\* exception, the call returns the timeout, backend-error or unexpected-error
\* string of its tool, which carries nothing of the error; the three strings
\* of a tool are pairwise distinct.
C18_ErrorMapping ==
    /\ \A c \in Callers, e \in Failures :
          FailedWith(c, e)
          => /\ callers[c].ret = Text(e, callers[c].kind, 0)
             /\ Spoken(callers[c].ret) = Utterance(callers[c].kind, e)
    /\ \A op \in {"rag", "appointment"}, e1, e2 \in Failures :
          e1 # e2 => Utterance(op, e1) # Utterance(op, e2)

\* A lookup whose backend task ended in an HTTP status failure has returned
\* the backend-error string of query_knowledge_base.
C18_HttpFailureReturned ==
    \E c \in Callers :
        /\ FailedWith(c, "http")
        /\ callers[c].kind = "rag"
        /\ Spoken(callers[c].ret) = Utterance("rag", "http")

\* The tool call c started an operation whose backend task found no URL
\* for its kind, and has returned.
Unconfigured(c) ==
    /\ callers[c].pc = "returned" /\ Originated(c)
    /\ backend[c].pc = "done" /\ backend[c].out = "config"

\* C19: ConfigMissing: while the webhook URL of a kind is not configured no
\* HTTP exchange of that kind is begun; the tool call that started the
\* operation returns the configuration apology of its tool, with its one
\* backend task finished (no second attempt), and its finally block leaves
\* consultation_state idle.
C19_ConfigMissing ==
    /\ \A t \in Callers :
          backend[t].pc \in {"posting", "replied"} => urls[backend[t].kind]
    /\ \A c \in Callers :
          Unconfigured(c)
          => /\ ~urls[callers[c].kind]
             /\ callers[c].ret = Text("config", callers[c].kind, 0)
             /\ \A t \in Callers : ~Outstanding(t)
             /\ consultation_state = [IdleState EXCEPT !.last_completed = now]

\* A scheduling call has returned the configuration apology while the URL
\* of the knowledge base is configured and that of the appointments is not.
C19_ApologyReturned ==
    \E c \in Callers :
        /\ Unconfigured(c)
        /\ callers[c].kind = "appointment"
        /\ urls.rag /\ ~urls.appointment

\* schedule_appointment call c returns a validation message in this step.
ReturnsValidation(c) ==
    /\ callers[c].pc = "new" /\ callers[c].kind = "appointment"
    /\ callers'[c].pc = "returned" /\ callers'[c].exit = "validation"

\* C20: validation failure has no effect: the phone "12345", a missing
\* phone, a date that is missing, unreadable, past or on another weekday
\* than day_reference, and a missing name or time each make
\* schedule_appointment return its validation message; the step that
\* returns it creates no backend task and no ticker, begins no utterance
\* and leaves consultation_state as it was, whether or not an operation is
\* active.
C20_ValidationNoEffect ==
    /\ [](/\ ValidationError([GoodArgs EXCEPT !.phone = ShortPhone]) = "phone_invalid"
          /\ ValidationError([GoodArgs EXCEPT !.phone = <<>>]) = "phone_missing"
          /\ ValidationError([GoodArgs EXCEPT !.date = NoDate]) = "date_missing"
          /\ ValidationError([GoodArgs EXCEPT !.date = Unparsed]) = "date_format"
          /\ ValidationError([GoodArgs EXCEPT !.date = DayMonthYear(Today - 1)])
                = "date_past"
          /\ ValidationError([GoodArgs EXCEPT !.day_reference = Lunes])
                = "manana_mismatch"
          /\ ValidationError([GoodArgs EXCEPT !.date = DayMonthYear(Today + 5),
                                              !.day_reference = Martes])
                = "date_mismatch"
          /\ ValidationError([GoodArgs EXCEPT !.name = ""]) = "missing_data"
          /\ ValidationError([GoodArgs EXCEPT !.time = ""]) = "missing_data"
          /\ ValidationError(GoodArgs) = "none")
    /\ [][\A c \in Callers : ReturnsValidation(c) =>
             /\ callers'[c].ret.msg \in
                   {"phone_missing", "phone_invalid", "date_missing",
                    "manana_mismatch", "date_past", "date_mismatch",
                    "date_format", "missing_data"}
             /\ UNCHANGED <<consultation_state, backend, ticker, heard>>
             /\ SaysInFlight' = SaysInFlight]_vars

\* A schedule_appointment call given the phone "12345" has returned the
\* message about the phone's nine digits while another operation is active.
C20_RejectedWhileActive ==
    \E c \in Callers :
        /\ callers[c].pc = "returned" /\ callers[c].exit = "validation"
        /\ callers[c].ret = Text("phone_invalid", "appointment", 0)
        /\ consultation_state.is_active
        /\ \E t \in Callers : Outstanding(t)

\* schedule_appointment call c has validated its arguments.
Validated(c) ==
    /\ callers[c].kind = "appointment"
    /\ callers[c].pc \notin {"idle", "new", "done", "cancelled"}

\* C21: day-mismatch validation: schedule_appointment asked for "mañana"
\* with a day_reference that spells a Spanish day name (in any case, padded
\* or not, with or without its accent) returns the day-mismatch message,
\* with no date and no backend task or ticker of its own, exactly when the
\* named day is not tomorrow's; otherwise parse_relative_date gives
\* tomorrow's date and no error.
C21_DayMismatch ==
    \A c \in Callers, a \in lim.inputs, w \in 0..6 :
        (Validated(c) /\ a.date = Manana /\ a.day_reference \in Spellings(w))
        => IF w # (a.today + 1) % 7
           THEN /\ callers[c].exit = "validation"
                /\ callers[c].ret = Text("manana_mismatch", "appointment", 0)
                /\ callers[c].date = NoDate
                /\ backend[c].pc = "none" /\ ticker[c].pc = "none"
           ELSE /\ callers[c].exit # "validation"
                /\ callers[c].date = DayMonthYear(a.today + 1)

\* schedule_appointment asked for "mañana" and "MIÉRCOLES" on a day whose
\* morrow is no miércoles has returned the day-mismatch message.
C21_MismatchReturned ==
    \E c \in Callers, a \in lim.inputs :
        /\ Validated(c)
        /\ a.date = Manana /\ a.day_reference = Shouted(MiercolesAccent)
        /\ callers[c].ret = Text("manana_mismatch", "appointment", 0)

\* Tool call c runs the branch `if consultation_state["is_active"]:` in this
\* step: query_knowledge_base at its first step, schedule_appointment after
\* its confirmation was spoken.
Supersedes(c) ==
    /\ consultation_state.is_active
    /\ \/ callers[c].pc = "new" /\ callers[c].kind = "rag"
       \/ callers[c].pc = "confirmed"
    /\ callers'[c].pc \in {"join", "own", "returned", "raised"}
    /\ callers'[c].exit # "say"

\* C22: supersession effect and frame: a tool call that arrives while an
\* operation is active writes its own kind and query into
\* consultation_state and leaves start_time, task, feedback_sent and
\* last_completed as they were; the backend task in flight is not cancelled
\* and no backend task is created.
C22_SupersessionFrame ==
    [][\A c \in Callers : Supersedes(c) =>
          /\ consultation_state'.operation_type = callers[c].kind
          /\ consultation_state'.current_query = c
          /\ consultation_state'.start_time = consultation_state.start_time
          /\ consultation_state'.task = consultation_state.task
          /\ consultation_state'.feedback_sent = consultation_state.feedback_sent
          /\ consultation_state'.last_completed = consultation_state.last_completed
          /\ \A t \in Callers :
                /\ backend'[t].cancel = backend[t].cancel
                /\ backend'[t].pc = backend[t].pc]_vars

\* C23: Impatience Responder: while an operation is active
\* handle_user_impatience returns the utterance of the operation's kind for
\* the bucket of now minus start_time (below 5 s, from 5 s to below 10 s,
\* 10 s or more); with no operation active it returns the how-can-I-help
\* utterance; it leaves consultation_state as it was.
C23_ImpatienceResponder ==
    [][\A c \in Callers :
          (/\ callers[c].kind = "impatience" /\ callers[c].pc = "new"
           /\ callers'[c].pc \in {"returned", "raised"}) =>
          LET elapsed == now - consultation_state.start_time
              said == callers'[c].ret
          IN  /\ callers'[c].pc = "returned"
              /\ UNCHANGED consultation_state
              /\ ~consultation_state.is_active => said = Text("help", "none", 0)
              /\ consultation_state.is_active =>
                    /\ said.op = consultation_state.operation_type
                    /\ elapsed < 5 => said.msg = "wait_short"
                    /\ (elapsed >= 5 /\ elapsed < 10) => said.msg = "wait_medium"
                    /\ elapsed >= 10 => said.msg = "wait_long"
                    /\ Spoken(said) # Spoken(Text("help", "none", 0))]_vars

\* handle_user_impatience has returned the third utterance of the
\* appointments 10 s after a scheduling operation started.
C23_AskedAtTenSeconds ==
    \E c \in Callers :
        /\ callers[c].pc = "returned"
        /\ callers[c].ret = Text("wait_long", "appointment", 0)
        /\ consultation_state.is_active
        /\ now - consultation_state.start_time = ImpatienceLate

\* C24: ticker re-spawn on supersession: after a tool call that arrives
\* while an operation is active has cancelled the operation's ticker and
\* awaits its backend task, a ticker is started for that tool call.  (Only
\* the is_active branch cancels a ticker while the task is outstanding.)
C24_TickerRespawn ==
    \A c \in Callers, f \in Callers :
        (/\ callers[c].pc = "join" /\ callers[c].wait = f
         /\ ticker[f].cancel
         /\ Outstanding(f)) ~> (ticker[c].pc # "none")

\* C25: awaited ticker cancellation: when a tool call that arrives while an
\* operation is active cancels the operation's ticker, that ticker has
\* terminated by the time the tool call suspends or returns.
C25_CancelAwaited ==
    [][\A c \in Callers :
          LET f == consultation_state.feedback_task
          IN  (Supersedes(c) /\ f # None /\ ticker[f].pc # "done")
              => ticker'[f].pc = "done"]_vars

\* C26: the backend payload is the original one: the request a backend
\* task has built carries the question or the appointment of the tool call
\* that created the task, also when another tool call overwrote
\* current_query between the creation of the task and its first step.
C26_OriginalPayload ==
    \A t \in Callers :
        backend[t].payload # None => backend[t].payload = t

\* C27: ticker termination only by cancellation: while its operation is
\* active a ticker ends only in a step that delivers a requested
\* cancellation; an utterance that fails and a missing session do not end it.
C27_EndsOnlyCancelled ==
    [][\A f \in Callers :
          (/\ consultation_state.is_active
           /\ consultation_state.feedback_task = f
           /\ ticker[f].pc # "done" /\ ticker'[f].pc = "done")
          => ticker[f].cancel]_vars

\* C28: no speech after ticker cancellation: once the cancellation of a
\* ticker has been requested, by a superseding tool call or by the finally
\* block, the ticker's next step ends it: it begins no utterance and appends
\* nothing to feedback_sent, wherever it stood (asleep, woken, in say or
\* after say).
C28_SilentAfterCancel ==
    [][\A f \in Callers :
          (ticker[f].cancel /\ ticker'[f].pc # ticker[f].pc)
          => /\ ticker'[f].pc = "done"
             /\ consultation_state'.feedback_sent = consultation_state.feedback_sent
             /\ heard' = heard]_vars

\* A ticker is cancelled in the middle of its utterance.
C28_CancelledMidSay ==
    \E f \in Callers : ticker[f].cancel /\ ticker[f].pc = "say"

\* C29: no dangling tasks when idle: in every state in which is_active is
\* false, after the finally block of a tool call and after the reset at the
\* end of the session alike, no ticker is alive and no backend task is
\* outstanding.
C29_NoDanglingTasks ==
    ~consultation_state.is_active
    => \A t \in Callers : ~Alive(t) /\ ~Outstanding(t)

\* One pass of the monitor's loop that neither the active operation nor the
\* 45 s after the last one suppresses, with silence the time since
\* last_user_activity.
UnsuppressedPoll(silence) ==
    /\ mon.pc = "woken" /\ mon'.pc # "woken" /\ ~mon.cancel
    /\ mgr.is_active
    /\ ~consultation_state.is_active
    /\ consultation_state.last_completed = None
       \/ now - consultation_state.last_completed >= GraceWindow
    /\ silence = now - mgr.last_user_activity

\* The monitor goes passive in this step: nothing is said, silence_warnings
\* is 0 and last_user_activity is the time of the poll.
GoesPassive ==
    /\ mon'.pc = "sleep"
    /\ heard' = heard
    /\ mgr'.silence_warnings = 0
    /\ mgr'.last_user_activity = now

\* C30 as stated: long-idle passive mode: at every poll that is not
\* suppressed, silence of 300 s or more makes the monitor say nothing and
\* set silence_warnings to 0 and last_user_activity to now, whatever
\* silence_warnings was.  (Silence reaches 300 s with no warning sent when
\* the polls before were suppressed: an operation was active, or had ended
\* less than 45 s before, at each of them.)
C30_LongIdle_AsStated ==
    [][\A silence \in 0..lim.time :
          (UnsuppressedPoll(silence) /\ silence >= 300) => GoesPassive]_vars

\* C30: long-idle passive mode: at every poll that is not suppressed, with
\* silence of 300 s or more the monitor goes passive if silence_warnings has
\* reached max_silence_warnings; with fewer warnings sent should_check_in
\* comes first and the monitor begins the check-in instead.
C30_LongIdle ==
    [][\A silence \in 0..lim.time :
          (UnsuppressedPoll(silence) /\ silence >= 300)
          => IF mgr.silence_warnings >= 1
             THEN GoesPassive
             ELSE mon'.pc = "say" /\ mgr'.silence_warnings = 1]_vars

\* The monitor has gone passive 300 s after its check-in at 62 s: the user
\* never spoke.
C30_PassiveAfterCheckIn ==
    /\ used.submits = 0 /\ used.events = 0
    /\ mgr.last_agent_response = StartupDelay + 2 * PollPeriod
    /\ mon.pc = "sleep"
    /\ mgr.silence_warnings = 0
    /\ mgr.last_user_activity = now
    /\ now = StartupDelay + 2 * PollPeriod + LongIdleThreshold

\* C31: monitor frame: no step of the monitor writes consultation_state, and
\* a pass of its loop that is skipped, because an operation is active or
\* because less than 45 s have passed since last_completed, says nothing
\* and leaves silence_warnings and last_user_activity as they were.
C31_MonitorFrame ==
    [][/\ mon' # mon => consultation_state' = consultation_state
       /\ (/\ mon.pc = "woken" /\ mon'.pc # "woken" /\ ~mon.cancel
           /\ mgr.is_active
           /\ \/ consultation_state.is_active
              \/ /\ consultation_state.last_completed # None
                 /\ now - consultation_state.last_completed < 45) =>
             /\ mon'.pc = "sleep"
             /\ heard' = heard
             /\ mgr'.silence_warnings = mgr.silence_warnings
             /\ mgr'.last_user_activity = mgr.last_user_activity]_vars

\* A pass of the loop found 60 s of silence and no warning used up, 30 s or
\* more after the last operation ended and inside its 45 s, and went back to
\* sleep.
C31_SkippedInGrace ==
    /\ JustPolled
    /\ ~consultation_state.is_active
    /\ consultation_state.last_completed # None
    /\ now - consultation_state.last_completed >= PollPeriod
    /\ now - consultation_state.last_completed < GraceWindow
    /\ now - mgr.last_user_activity >= CheckInThreshold
    /\ mgr.silence_warnings = 0

\* C32: teardown touches only its own operation: the finally block of a
\* tool call requests the cancellation of no ticker but the one of the
\* operation the call started, and when consultation_state holds the task
\* of another tool call it leaves is_active and task as they are.  (A step
\* of the finally block takes the call from the end of its await of the
\* backend task to the await of the ticker, or from there to its return.)
C32_OwnTeardownOnly ==
    [][\A c \in Callers :
          (\/ callers[c].pc = "own" /\ callers'[c].pc \in {"fin", "returned"}
           \/ callers[c].pc = "fin" /\ callers'[c].pc = "returned") =>
          /\ \A f \in Callers \ {c} : ticker'[f].cancel = ticker[f].cancel
          /\ consultation_state.task # c =>
                /\ consultation_state'.is_active = consultation_state.is_active
                /\ consultation_state'.task = consultation_state.task]_vars

\* C33: last_user_activity never moves backwards: no step, of the monitor or
\* of update_user_activity, lowers it, also when the user is active while
\* the monitor's check-in is being spoken.
C33_ActivityMonotone ==
    [][mgr'.last_user_activity >= mgr.last_user_activity]_vars

\* C34: warning counter bound: silence_warnings stays between 0 and
\* max_silence_warnings, 1 in FixedConversationManager and 3 in the legacy
\* ConversationManager, and the monitor begins a check-in only in a step that
\* adds one to the counter.
C34_WarningBound ==
    [][LET MaxWarnings == IF mgr.class = "FixedConversationManager"
                          THEN max_silence_warnings
                          ELSE legacy_max_silence_warnings
       IN  /\ mgr.silence_warnings \in 0..MaxWarnings
           /\ mgr'.silence_warnings \in 0..MaxWarnings
           /\ BeginsCheckIn => mgr'.silence_warnings = mgr.silence_warnings + 1]_vars

\* The legacy monitor speaks its third check-in, the counter at its maximum.
C34_ThirdCheckIn ==
    /\ mgr.class = "ConversationManager"
    /\ mon.pc = "say"
    /\ mgr.silence_warnings = 3

\* C36: legacy monitor cycle: in the legacy ConversationManager the monitor
\* begins a check-in only with the counter below 3, adding one to it, so
\* that at most 3 check-ins follow a reset of the counter; it begins the
\* closing utterance only with the counter at 3 and a silence of 60 s or
\* more; and the pass of the loop that spoke the closing utterance ends with
\* the counter at 0, from where the cycle starts again.
C36_LegacyCycle ==
    [][mgr.class = "ConversationManager" =>
          /\ BeginsCheckIn =>
                /\ mgr.silence_warnings < 3
                /\ mgr'.silence_warnings = mgr.silence_warnings + 1
          /\ (mon.pc # "bye" /\ mon'.pc = "bye") =>
                /\ mgr.silence_warnings = 3
                /\ now - mgr.last_user_activity >= 60
                /\ mgr'.silence_warnings = 3
          /\ (mon.pc = "byed" /\ mon'.pc # "byed") => mgr'.silence_warnings = 0]_vars

\* The user never spoke: after three check-ins and the closing utterance the
\* legacy monitor speaks the first check-in of the next cycle.
C36_NextCycle ==
    /\ mgr.class = "ConversationManager"
    /\ used.events = 0
    /\ mon.pc = "say"
    /\ mgr.silence_warnings = 1
    /\ now >= StartupDelay + 2 * LegacyClosingThreshold

\* C35: stage order: within one operation, the session present,
\* feedback_sent is always a prefix of initial, processing, patience,
\* patience, ...; the ticker begins the processing utterance only after the
\* initial one was recorded and a patience utterance only after the
\* processing one was.
C35_StageOrder ==
    [][LET StageAt(i) ==
               IF i = 1 THEN "initial" ELSE IF i = 2 THEN "processing" ELSE "patience"
           sent == consultation_state.feedback_sent
           sent2 == consultation_state'.feedback_sent
       IN  /\ \A i \in DOMAIN sent : sent[i] = StageAt(i)
           /\ \A i \in DOMAIN sent2 : sent2[i] = StageAt(i)
           /\ \A f \in Callers :
                 (ticker[f].pc # "say" /\ ticker'[f].pc = "say")
                 => /\ ticker[f].stage = 2 => sent = <<"initial">>
                    /\ ticker[f].stage = 3 =>
                          /\ Len(sent) >= 2
                          /\ sent[1] = "initial" /\ sent[2] = "processing"]_vars

\* C37: normalize_phone result shape: for every phone number given to
\* schedule_appointment exactly one of normalized_phone and phone_error is
\* set; a normalized phone is +51 followed by exactly 9 digits ("987654321"
\* gives "+51987654321"); and normalize_phone applied to a normalized phone
\* returns that phone and no error.
C37_PhoneShape ==
    \A c \in Callers, a \in lim.inputs :
        Validated(c) =>
            LET phone == callers[c].phone
                rejected ==
                    /\ callers[c].exit = "validation"
                    /\ callers[c].ret \in {Text("phone_missing", "appointment", 0),
                                           Text("phone_invalid", "appointment", 0)}
            IN  /\ phone # <<>> <=> ~rejected
                /\ phone # <<>> =>
                      /\ Len(phone) = 12
                      /\ phone[1] = "+" /\ phone[2] = "5" /\ phone[3] = "1"
                      /\ \A i \in 4..12 : phone[i] \in Digits
                      /\ normalize_phone(phone) = [phone |-> phone, error |-> "none"]
                /\ a.phone = GoodPhone => phone = CountryCode \o GoodPhone

\* schedule_appointment was given "+ 51987-654-321" and holds +51987654321.
C37_DressedAccepted ==
    \E c \in Callers, a \in lim.inputs :
        /\ Validated(c)
        /\ a.phone = <<"+", " ", "5", "1">> \o Dashed(GoodPhone)
        /\ callers[c].phone = CountryCode \o GoodPhone
====
